---------------------------- MODULE Spec2Model ----------------------------
(***************************************************************************)
(* Model of concurrent_git_merge (src/src/concurrent_git_merge.py): the    *)
(* descriptor builder, the validation pass, the per-repository merge task  *)
(* and the orchestrating main().                                           *)
(*                                                                         *)
(* Strings are sequences of one-character strings, so that splitting on    *)
(* ':' and stripping whitespace are computed, not assumed.  A Python dict  *)
(* is a function whose DOMAIN is the set of keys present.                  *)
(***************************************************************************)
EXTENDS Integers, Sequences, FiniteSets, TLC

(***************************************************************************)
(* Bounds of the model.                                                    *)
(***************************************************************************)
MaxRepos == 3      \* longest list of repo specs given with -r
MaxFields == 5     \* most colon-delimited fields of a generated spec

(***************************************************************************)
(* Strings.                                                                *)
(***************************************************************************)
EmptyStr == << >>

IsSpace(c) == c = " "

RECURSIVE LStrip(_)
LStrip(s) ==
    IF s = EmptyStr THEN EmptyStr
    ELSE IF IsSpace(Head(s)) THEN LStrip(Tail(s)) ELSE s

RECURSIVE RStrip(_)
RStrip(s) ==
    IF s = EmptyStr THEN EmptyStr
    ELSE IF IsSpace(s[Len(s)]) THEN RStrip(SubSeq(s, 1, Len(s) - 1)) ELSE s

\* str.strip(): leading and trailing whitespace removed.
Strip(s) == RStrip(LStrip(s))

\* re.split(':', s): the list of the parts between the colons; a string
\* with n colons gives n + 1 parts, the empty string gives [''].
RECURSIVE SplitAcc(_, _, _)
SplitAcc(s, cur, acc) ==
    IF s = EmptyStr THEN Append(acc, cur)
    ELSE IF Head(s) = ":" THEN SplitAcc(Tail(s), EmptyStr, Append(acc, cur))
    ELSE SplitAcc(Tail(s), Append(cur, Head(s)), acc)

Split(s) == SplitAcc(s, EmptyStr, << >>)

\* ':'.join(fields), used to generate the specs given on the command line.
RECURSIVE Join(_)
Join(fields) ==
    IF Len(fields) = 0 THEN EmptyStr
    ELSE IF Len(fields) = 1 THEN fields[1]
    ELSE fields[1] \o <<":">> \o Join(Tail(fields))

(***************************************************************************)
(* Dicts.                                                                  *)
(***************************************************************************)
EmptyDict == [k \in {} |-> EmptyStr]

Put(d, key, value) ==
    [k \in DOMAIN d \cup {key} |-> IF k = key THEN value ELSE d[k]]

PutIf(cond, d, key, value) == IF cond THEN Put(d, key, value) ELSE d

HasKey(d, key) == key \in DOMAIN d

(***************************************************************************)
(* make_repo_metadata: one spec string to one descriptor, or ValueError.   *)
(***************************************************************************)
\* parts = [*parts, *([''] * (4 - len(parts)))]
ExtendParts(parts) ==
    parts \o [i \in 1..(4 - Len(parts)) |-> EmptyStr]

\* error_msg: the text of the ValueError, with the spec string in it.
error_msg(repo_data_from_parameter) ==
    <<"Given repo_data '">> \o repo_data_from_parameter \o <<"' has unexpected format.">>

\* Mutant of make_repo_metadata: the number of parts is not checked, the
\* fields after the fourth are dropped.
make_repo_metadata_ignoring_extra(repo_data_from_parameter) ==
    LET parts0 == Split(repo_data_from_parameter)
        parts == IF Len(parts0) > 4 THEN SubSeq(parts0, 1, 4) ELSE ExtendParts(parts0)
        d0 == Put(EmptyDict, "repo_data_from_parameter", repo_data_from_parameter)
        d1 == PutIf(Strip(parts[1]) # EmptyStr, d0, "repo_local_name", Strip(parts[1]))
        d2 == PutIf(Strip(parts[2]) # EmptyStr, d1, "source_ref", Strip(parts[2]))
        d3 == PutIf(Strip(parts[3]) # EmptyStr, d2, "dest_branch", Strip(parts[3]))
        d4 == PutIf(Strip(parts[4]) # EmptyStr, d3, "prj_and_repo_remote_name", Strip(parts[4]))
    IN  [exc |-> "none", val |-> d4]

\* Mutant of make_repo_metadata: a field that is present in the spec is
\* stored even when it is empty, so that it overrides the default.
make_repo_metadata_keeping_empty(repo_data_from_parameter) ==
    LET parts0 == Split(repo_data_from_parameter)
    IN  IF Len(parts0) \notin 1..4
        THEN [exc |-> "ValueError", msg |-> error_msg(repo_data_from_parameter)]
        ELSE
          LET d0 == Put(EmptyDict, "repo_data_from_parameter", repo_data_from_parameter)
              d1 == PutIf(Strip(parts0[1]) # EmptyStr, d0, "repo_local_name", Strip(parts0[1]))
              d2 == PutIf(Len(parts0) >= 2, d1, "source_ref", Strip(parts0[2]))
              d3 == PutIf(Len(parts0) >= 3, d2, "dest_branch", Strip(parts0[3]))
              d4 == PutIf(Len(parts0) >= 4, d3, "prj_and_repo_remote_name", Strip(parts0[4]))
          IN  [exc |-> "none", val |-> d4]

make_repo_metadata(repo_data_from_parameter) ==
    LET parts0 == Split(repo_data_from_parameter)
    IN  IF Len(parts0) \notin 1..4
        THEN [exc |-> "ValueError", msg |-> error_msg(repo_data_from_parameter)]
        ELSE
          LET parts == ExtendParts(parts0)
              d0 == Put(EmptyDict, "repo_data_from_parameter", repo_data_from_parameter)
              d1 == PutIf(Strip(parts[1]) # EmptyStr, d0, "repo_local_name", Strip(parts[1]))
              d2 == PutIf(Strip(parts[2]) # EmptyStr, d1, "source_ref", Strip(parts[2]))
              d3 == PutIf(Strip(parts[3]) # EmptyStr, d2, "dest_branch", Strip(parts[3]))
              d4 == PutIf(Strip(parts[4]) # EmptyStr, d3, "prj_and_repo_remote_name", Strip(parts[4]))
          IN  [exc |-> "none", val |-> d4]

(***************************************************************************)
(* make_repos_metadata: the list of descriptors with the defaults applied. *)
(***************************************************************************)
\* Mutant of ApplyDefaults: the two defaults are taken for each other.
ApplyDefaultsSwapped(d, default_source_ref, default_dest_branch) ==
    LET e1 == PutIf(~HasKey(d, "source_ref"), d, "source_ref", Strip(default_dest_branch))
    IN  PutIf(~HasKey(e1, "dest_branch"), e1, "dest_branch", Strip(default_source_ref))

ApplyDefaults(d, default_source_ref, default_dest_branch) ==
    LET e1 == PutIf(~HasKey(d, "source_ref"), d, "source_ref", Strip(default_source_ref))
    IN  PutIf(~HasKey(e1, "dest_branch"), e1, "dest_branch", Strip(default_dest_branch))

make_repos_metadata(repos_data, default_source_ref, default_dest_branch) ==
    LET built == [i \in 1..Len(repos_data) |-> make_repo_metadata(repos_data[i])]
    IN  IF \E i \in 1..Len(repos_data) : built[i].exc # "none"
        THEN LET first == CHOOSE i \in 1..Len(repos_data) :
                            /\ built[i].exc # "none"
                            /\ \A j \in 1..(i - 1) : built[j].exc = "none"
             IN  [exc |-> "ValueError", msg |-> built[first].msg]
        ELSE [exc |-> "none",
              val |-> [i \in 1..Len(repos_data) |->
                         ApplyDefaults(built[i].val, default_source_ref, default_dest_branch)]]

(***************************************************************************)
(* validate_repos_metadata: the list of all violations, or the KeyError    *)
(* that the subscription of an absent key raises.                          *)
(***************************************************************************)
ValidatedKeys == {"repo_data_from_parameter", "repo_local_name", "source_ref", "dest_branch"}

MissingNameMsg(repo_data) ==
    [msg |-> "Missing repo-local-name in repo-data", repo_data |-> repo_data, names |-> << >>]

MissingSourceRefMsg(repo_data) ==
    [msg |-> "Missing source-ref in or for repo-data", repo_data |-> repo_data, names |-> << >>]

MissingDestBranchMsg(repo_data) ==
    [msg |-> "Missing dest-branch in or for repo-data", repo_data |-> repo_data, names |-> << >>]

NotUniqueMsg(repo_local_names) ==
    [msg |-> "Values of repo_local_name given in parameter -r/--repos-data not unique",
     repo_data |-> EmptyStr, names |-> repo_local_names]

\* One pass of the loop body for one descriptor: the messages it appends.
RepoErrors(repo_metadata) ==
    LET repo_data == repo_metadata["repo_data_from_parameter"]
    IN  (IF repo_metadata["repo_local_name"] = EmptyStr
         THEN <<MissingNameMsg(repo_data)>> ELSE << >>)
        \o (IF repo_metadata["source_ref"] = EmptyStr
            THEN <<MissingSourceRefMsg(repo_data)>> ELSE << >>)
        \o (IF repo_metadata["dest_branch"] = EmptyStr
            THEN <<MissingDestBranchMsg(repo_data)>> ELSE << >>)

\* repo_local_names.append(repo_local_name) for the non-empty names.
RepoNames(repo_metadata) ==
    IF repo_metadata["repo_local_name"] = EmptyStr
    THEN << >> ELSE <<repo_metadata["repo_local_name"]>>

RECURSIVE CollectErrors(_)
CollectErrors(repos_md) ==
    IF Len(repos_md) = 0 THEN << >>
    ELSE RepoErrors(Head(repos_md)) \o CollectErrors(Tail(repos_md))

RECURSIVE CollectNames(_)
CollectNames(repos_md) ==
    IF Len(repos_md) = 0 THEN << >>
    ELSE RepoNames(Head(repos_md)) \o CollectNames(Tail(repos_md))

SetOf(seq) == {seq[i] : i \in 1..Len(seq)}

\* if len(set(repo_local_names)) < len(repos_metadata)
\* Mutant of NotUnique: the names are not compared.
NotUniqueNeverFound(repo_local_names, repos_md) == FALSE

\* Mutant of NotUnique: the comparison is <= for <.
NotUniqueOffByOne(repo_local_names, repos_md) ==
    Cardinality(SetOf(repo_local_names)) <= Len(repos_md)

NotUnique(repo_local_names, repos_md) ==
    Cardinality(SetOf(repo_local_names)) < Len(repos_md)

\* The key whose subscription raises, in the order of lines 294-302.
FirstMissingKey(repo_metadata) ==
    IF ~HasKey(repo_metadata, "repo_data_from_parameter") THEN <<"repo_data_from_parameter">>
    ELSE IF ~HasKey(repo_metadata, "repo_local_name") THEN <<"repo_local_name">>
    ELSE IF ~HasKey(repo_metadata, "source_ref") THEN <<"source_ref">>
    ELSE <<"dest_branch">>

validate_repos_metadata(repos_md) ==
    IF \E i \in 1..Len(repos_md) : ~(ValidatedKeys \subseteq DOMAIN repos_md[i])
    THEN LET first == CHOOSE i \in 1..Len(repos_md) :
                        /\ ~(ValidatedKeys \subseteq DOMAIN repos_md[i])
                        /\ \A j \in 1..(i - 1) : ValidatedKeys \subseteq DOMAIN repos_md[j]
         IN  [exc |-> "KeyError", msg |-> FirstMissingKey(repos_md[first]), val |-> << >>]
    ELSE LET repo_local_names == CollectNames(repos_md)
             errs == CollectErrors(repos_md)
         IN  [exc |-> "none", msg |-> EmptyStr,
              val |-> IF NotUnique(repo_local_names, repos_md)
                      THEN Append(errs, NotUniqueMsg(repo_local_names))
                      ELSE errs]

(***************************************************************************)
(* State of one run of main().                                             *)
(***************************************************************************)
VARIABLES
    repos_data,            \* g_cl_args.repos_data: the specs given with -r
    default_source_ref,    \* g_cl_args.default_source_ref
    default_dest_branch,   \* g_cl_args.default_dest_branch
    cl_args,               \* merge_branch_template, pre_script, post_script
    main_pc,               \* position of main()
    repos_metadata,        \* the list of descriptors, mutated in place by the tasks
    errors,                \* what validate_repos_metadata returned
    exit_code,             \* process exit status, NoExit while running
    main_exc,              \* exception that left main() unhandled, "none" otherwise
    main_exc_msg,          \* the message of that exception
    report,                \* rows of report.html, << >> while not written
    report_written,        \* TRUE once report.html has been written
    tasks,                 \* per descriptor: position and locals of execute_merge
    logs,                  \* the files of the logs directory: name -> lines appended
    clock,                 \* readings of datetime.now() so far
    run,                   \* 1 in the first run of the program, 2 in a second run
    git,                   \* per repository: what is known of its branches and HEAD
    max_workers,           \* the number of worker threads of the pool
    merge_repos,           \* merge_repos.py: g_start_timestamp and a call of make_mergebranch_name
    renderings             \* the calls of make_mergebranch_name so far, with what they returned

vars == <<repos_data, default_source_ref, default_dest_branch, cl_args, main_pc,
          repos_metadata, errors, exit_code, main_exc, main_exc_msg, report, report_written,
          tasks, logs, clock, run, git, max_workers, merge_repos, renderings>>

inputs == <<repos_data, default_source_ref, default_dest_branch, cl_args>>

NoExit == 0 - 1
NoReturncode == 0 - 1

ReposDir == <<"R">>
LogsDir == <<"L">>

(***************************************************************************)
(* Merge-branch templates.  A template is a list of pieces: literal text,  *)
(* {{field}} and {{field.strip()}}.  Rendering follows jinja2: an          *)
(* undefined name renders as the empty string, a method call on an         *)
(* undefined name raises UndefinedError.                                   *)
(***************************************************************************)
Text(t) == [kind |-> "text", text |-> t, field |-> ""]
Field(f) == [kind |-> "field", text |-> EmptyStr, field |-> f]
Call(f) == [kind |-> "call", text |-> EmptyStr, field |-> f]
\* {{ f.now() }}: any expression of Python may stand in a template; this one
\* calls datetime.now() through the datetime held by the field f.
Now(f) == [kind |-> "now", text |-> EmptyStr, field |-> f]

NoTemplate == << >>

PieceRaises(piece, repo_metadata) ==
    piece.kind \in {"call", "now"} /\ ~HasKey(repo_metadata, piece.field)

RenderPiece(piece, repo_metadata) ==
    CASE piece.kind = "text" -> piece.text
      [] piece.kind = "field" ->
            IF HasKey(repo_metadata, piece.field) THEN repo_metadata[piece.field] ELSE EmptyStr
      [] piece.kind = "call" -> Strip(repo_metadata[piece.field])
      [] piece.kind = "now" -> <<ToString(clock)>>

RECURSIVE RenderPieces(_, _)
RenderPieces(tmpl, repo_metadata) ==
    IF Len(tmpl) = 0 THEN EmptyStr
    ELSE RenderPiece(Head(tmpl), repo_metadata) \o RenderPieces(Tail(tmpl), repo_metadata)

\* Mutant of make_mergebranch_name: the name carries the time of the call.
make_mergebranch_name_stamped(merge_branch_template, repo_metadata) ==
    IF \E k \in 1..Len(merge_branch_template) :
           PieceRaises(merge_branch_template[k], repo_metadata)
    THEN [exc |-> "UndefinedError", val |-> EmptyStr]
    ELSE [exc |-> "none",
          val |-> RenderPieces(merge_branch_template, repo_metadata) \o <<ToString(clock)>>]

\* Lines 344-362: the jinja2 template rendered with the descriptor.
make_mergebranch_name(merge_branch_template, repo_metadata) ==
    IF \E k \in 1..Len(merge_branch_template) :
           PieceRaises(merge_branch_template[k], repo_metadata)
    THEN [exc |-> "UndefinedError", val |-> EmptyStr]
    ELSE [exc |-> "none", val |-> RenderPieces(merge_branch_template, repo_metadata)]

(***************************************************************************)
(* make_mergebranch_name of the merge_repos variant (src/src/merge_repos.py *)
(* lines 284-291): %SBR, %DBR and %DATE(format) in a pattern, by           *)
(* str.replace, re.search and re.sub on the characters of the strings.     *)
(***************************************************************************)
\* sub occurs in s at position p.
OccursAt(s, sub, p) ==
    /\ p >= 1
    /\ p + Len(sub) - 1 <= Len(s)
    /\ SubSeq(s, p, p + Len(sub) - 1) = sub

\* s.replace(old, new): every non-overlapping occurrence of old, from the left.
RECURSIVE Replace(_, _, _)
Replace(s, old, new) ==
    IF s = EmptyStr THEN EmptyStr
    ELSE IF OccursAt(s, old, 1)
         THEN new \o Replace(SubSeq(s, Len(old) + 1, Len(s)), old, new)
         ELSE <<Head(s)>> \o Replace(Tail(s), old, new)

SBR == <<"%", "S", "B", "R">>
DBR == <<"%", "D", "B", "R">>
DATE == <<"%", "D", "A", "T", "E", "(">>

\* The position of the last ')' of s, 0 if it has none.
LastParen(s) ==
    IF \E q \in 1..Len(s) : s[q] = ")"
    THEN CHOOSE q \in 1..Len(s) : s[q] = ")" /\ \A r \in (q + 1)..Len(s) : s[r] # ")"
    ELSE 0

\* The positions at which r'%DATE\((.+)\)' matches: '%DATE(' is there, and
\* at least one character and then a ')' follow.
DateMatchStarts(s) == {p \in 1..Len(s) : OccursAt(s, DATE, p) /\ LastParen(s) >= p + Len(DATE) + 1}

\* re.search(r'%DATE\((.+)\)', s): the leftmost match; '.+' is greedy, it
\* goes on to the last ')' of the string.
ReSearchDate(s) ==
    IF DateMatchStarts(s) = {}
    THEN [found |-> FALSE, start |-> 0, end |-> 0, group1 |-> EmptyStr]
    ELSE LET p == CHOOSE p \in DateMatchStarts(s) : \A q \in DateMatchStarts(s) : p <= q
         IN  [found |-> TRUE, start |-> p, end |-> LastParen(s),
              group1 |-> SubSeq(s, p + Len(DATE), LastParen(s) - 1)]

\* re.sub(r'%DATE\(.+\)', repl, s): the match ends at the last ')' of the
\* string, so there is at most one.
ReSubDate(s, repl) ==
    LET m == ReSearchDate(s)
    IN  IF m.found
        THEN SubSeq(s, 1, m.start - 1) \o repl \o SubSeq(s, m.end + 1, Len(s))
        ELSE s

\* What strftime gives for one directive (C library of Linux: an unknown
\* directive is copied).
Directive(c, timestamp) ==
    CASE c = "b" -> timestamp.b
      [] c = "d" -> timestamp.d
      [] c = "S" -> <<"0", "0">>
      [] c = "D" -> timestamp.m \o <<"/">> \o timestamp.d \o <<"/">> \o timestamp.y
      [] c = "%" -> <<"%">>
      [] OTHER -> <<"%", c>>

\* timestamp.strftime(format)
RECURSIVE Strftime(_, _)
Strftime(format, timestamp) ==
    IF format = EmptyStr THEN EmptyStr
    ELSE IF Head(format) = "%" /\ Len(format) >= 2
         THEN Directive(format[2], timestamp) \o Strftime(SubSeq(format, 3, Len(format)), timestamp)
         ELSE <<Head(format)>> \o Strftime(Tail(format), timestamp)

\* make_mergebranch_name of merge_repos.py.
merge_repos_make_mergebranch_name(merge_branch_pattern, source_branch, dest_branch, g_start_timestamp) ==
    LET merge_branch == Replace(Replace(merge_branch_pattern, SBR, source_branch), DBR, dest_branch)
        m == ReSearchDate(merge_branch_pattern)
    IN  IF m.found
        THEN ReSubDate(merge_branch, Strftime(m.group1, g_start_timestamp))
        ELSE merge_branch

(***************************************************************************)
(* log_task and run_command.                                               *)
(***************************************************************************)
\* Mutant of log_task: the content is written at the top of the file.
log_task_at_top(lg, logfile_name, logfile_content) ==
    [f \in DOMAIN lg \cup {logfile_name} |->
        IF f = logfile_name
        THEN <<logfile_content>> \o (IF f \in DOMAIN lg THEN lg[f] ELSE << >>)
        ELSE lg[f]]

\* open(logfile_path, 'a'), write: the file is created when absent and the
\* content is appended to what it holds.
log_task(lg, logfile_name, logfile_content) ==
    [f \in DOMAIN lg \cup {logfile_name} |->
        IF f = logfile_name
        THEN (IF f \in DOMAIN lg THEN lg[f] ELSE << >>) \o <<logfile_content>>
        ELSE lg[f]]

RECURSIVE log_tasks(_, _, _)
log_tasks(lg, logfile_name, contents) ==
    IF Len(contents) = 0 THEN lg
    ELSE log_tasks(log_task(lg, logfile_name, Head(contents)), logfile_name, Tail(contents))

Line(text) == [text |-> text, md |-> EmptyDict]
Snapshot(text, repo_metadata) == [text |-> text, md |-> repo_metadata]

RcText(returncode) == IF returncode = 0 THEN <<"0">> ELSE <<"1">>

\* Mutant of run_command: the return code is never honored.
run_command_never_raising(lg, command, repo_name, logfile_name, honor_returncode, suppress_stdout, output_on_error, returncode) ==
    LET output == <<"Returncode: ">> \o RcText(returncode) \o <<"; Duration">>
                  \o (IF suppress_stdout THEN EmptyStr ELSE <<"; Output: <stdout>">>)
        lg1 == log_task(lg, logfile_name, Line(<<"$ ">> \o command))
        lg2 == log_task(lg1, logfile_name, Line(output))
    IN  [logs |-> lg2, raised |-> FALSE, msg |-> EmptyStr, returncode |-> returncode]

\* What run_command does with a command whose subprocess returned returncode:
\* the lines it appends to the log, and the exception it raises (msg) if any.
run_command(lg, command, repo_name, logfile_name, honor_returncode, suppress_stdout, output_on_error, returncode) ==
    LET output == <<"Returncode: ">> \o RcText(returncode) \o <<"; Duration">>
                  \o (IF suppress_stdout THEN EmptyStr ELSE <<"; Output: <stdout>">>)
        lg1 == log_task(lg, logfile_name, Line(<<"$ ">> \o command))
        lg2 == log_task(lg1, logfile_name, Line(output))
        raises == honor_returncode /\ returncode # 0
    IN  [logs |-> lg2,
         raised |-> raises,
         msg |-> IF raises
                 THEN repo_name \o <<": The following command exited with exit-code ">>
                      \o RcText(returncode) \o <<": ">> \o command
                      \o (IF output_on_error THEN <<"<stdout>">> ELSE EmptyStr)
                 ELSE EmptyStr,
         returncode |-> returncode]

(***************************************************************************)
(* Inputs of a run.                                                        *)
(***************************************************************************)
ListsOf(S, n) == UNION {[1..k -> S] : k \in 1..n}

\* Specs of the whole-run specification: a bare name, all four fields, an
\* empty spec (no local name) and a spec with five fields.
RunSpecs ==
    { <<"a">>,
      <<"b", ":", "s", ":", "d", ":", "r">>,
      EmptyStr,
      <<"a", ":", ":", ":", ":">> }

RunDefaults == {EmptyStr, <<"m">>}

Templates ==
    { NoTemplate,
      <<Text(<<"x", "/">>), Field("dest_branch"), Field("prj_and_repo_remote_name")>>,
      <<Call("prj_and_repo_remote_name")>> }

\* --pre-script and --post-script: not given, or the command to run.
PreScripts == {EmptyStr, <<"pre.sh">>}
PostScripts == {EmptyStr, <<"post.sh">>}

\* -m/--merge-options
MergeOptions == <<"--no-ff">>

Tasks == 1..Len(repos_data)

NewTask ==
    [pc |-> "new", task_finish_status |-> "", exc |-> FALSE, e |-> EmptyStr,
     r_merge |-> NoReturncode, b |-> EmptyStr, task_start_timestamp |-> 0,
     returned |-> << >>, is_dir |-> "unchecked",
     extended_env |-> EmptyDict, pre_script_env |-> EmptyDict, post_script_env |-> EmptyDict]

InitRun ==
    /\ main_pc = "make_repos_metadata"
    /\ repos_metadata = << >>
    /\ errors = << >>
    /\ exit_code = NoExit
    /\ main_exc = "none"
    /\ main_exc_msg = EmptyStr
    /\ report = << >>
    /\ report_written = FALSE
    /\ tasks = [i \in 1..Len(repos_data) |-> NewTask]
    /\ logs = [f \in {} |-> << >>]
    /\ clock = 0

\* ThreadPoolExecutor(): max_workers is min(32, (os.cpu_count() or 1) + 4).
PoolSize(cpu_count) == IF cpu_count + 4 < 32 THEN cpu_count + 4 ELSE 32

\* Nothing was rendered yet, by either program.
NoRenderings == [concurrent_git_merge |-> {}, merge_repos |-> {}]

\* merge_repos.py is another program: it is not loaded in a run of
\* concurrent_git_merge.py.
NotImported ==
    [pc |-> "not imported", g_start_timestamp |-> EmptyDict, merge_branch_pattern |-> EmptyStr,
     source_branch |-> EmptyStr, dest_branch |-> EmptyStr, merge_branch |-> EmptyStr]

\* What is known of a repository before any command has looked at it: no
\* branch is known to exist or to be missing, HEAD is unknown, nothing was
\* merged.
UnknownRepo ==
    [branches |-> {}, missing |-> {}, head |-> EmptyStr, merged_on |-> {}]

\* The first run of the program, on repositories in whatever state.
InitEnv ==
    /\ run = 1
    /\ git = [i \in 1..Len(repos_data) |-> UnknownRepo]
    /\ max_workers = PoolSize(1)
    /\ merge_repos = NotImported
    /\ renderings = NoRenderings

Init ==
    /\ repos_data \in ListsOf(RunSpecs, MaxRepos)
    /\ default_source_ref \in RunDefaults
    /\ default_dest_branch \in RunDefaults
    /\ cl_args \in [merge_branch_template : Templates, pre_script : PreScripts,
                    post_script : PostScripts]
    /\ InitRun
    /\ InitEnv

(***************************************************************************)
(* main(): building and validating the descriptors.                        *)
(***************************************************************************)
\* An exception that nothing catches ends the interpreter with status 1.
Unhandled(exc, msg) ==
    /\ main_pc' = "exited"
    /\ main_exc' = exc
    /\ main_exc_msg' = msg
    /\ exit_code' = 1

\* sys.exit(code)
SysExit(code) ==
    /\ main_pc' = "exited"
    /\ main_exc' = "none"
    /\ main_exc_msg' = EmptyStr
    /\ exit_code' = code

MainMakeReposMetadata ==
    /\ main_pc = "make_repos_metadata"
    /\ LET r == make_repos_metadata(repos_data, default_source_ref, default_dest_branch)
       IN  IF r.exc # "none"
           THEN /\ Unhandled(r.exc, r.msg)
                /\ UNCHANGED repos_metadata
           ELSE /\ repos_metadata' = r.val
                /\ main_pc' = "validate"
                /\ UNCHANGED <<main_exc, main_exc_msg, exit_code>>
    /\ UNCHANGED <<inputs, max_workers, run, git, merge_repos, renderings, errors, report, report_written, tasks, logs, clock>>

MainValidate ==
    /\ main_pc = "validate"
    /\ LET r == validate_repos_metadata(repos_metadata)
       IN  IF r.exc # "none"
           THEN /\ Unhandled(r.exc, r.msg)
                /\ UNCHANGED errors
           ELSE /\ errors' = r.val
                /\ IF r.val # << >>
                   THEN SysExit(1)
                   ELSE /\ main_pc' = "submit"
                        /\ UNCHANGED <<main_exc, main_exc_msg, exit_code>>
    /\ UNCHANGED <<inputs, max_workers, run, git, merge_repos, renderings, repos_metadata, report, report_written, tasks, logs, clock>>

(***************************************************************************)
(* execute_merge: one task per descriptor.                                 *)
(***************************************************************************)
Returncodes == {0, 1}

RepoLocalName(i) == repos_metadata[i]["repo_local_name"]
RepoDir(i) == ReposDir \o <<"/">> \o RepoLocalName(i)
LogfileName(i) == <<"repo--">> \o RepoLocalName(i) \o <<".log">>

HasTemplate == cl_args.merge_branch_template # NoTemplate
HasPreScript == cl_args.pre_script # EmptyStr
HasPostScript == cl_args.post_script # EmptyStr

\* execute_merge has returned or raised.
Terminated(i) == tasks[i].pc \in {"done", "raised"}

\* Mutant of WorkerTook: a thread is started for every work item.
WorkerTookAtOnce(i) == i <= Len(repos_data)

\* The workers take the work items from a queue in the order in which
\* executor.map submitted them, one each, and the next one when execute_merge
\* has returned or raised: the i-th item is taken by a worker at the latest
\* when i - max_workers items have run.
WorkerTook(i) == i <= max_workers + Cardinality({j \in Tasks : Terminated(j)})

\* Mutant of SetMetadata: the task writes into the descriptor that follows
\* its own in the list.
SetMetadataOfNext(i, md) ==
    repos_metadata' = [repos_metadata EXCEPT ![(i % Len(repos_metadata)) + 1] = md]

\* repo_metadata[...] = ...: the task writes its own descriptor, the element
\* of the list that executor.map handed to it.
SetMetadata(i, md) == repos_metadata' = [repos_metadata EXCEPT ![i] = md]

\* The exception leaves execute_merge: the pool keeps it in the future, that
\* nobody reads.
Propagate(i) == tasks' = [tasks EXCEPT ![i].pc = "raised"]

\* Mutant of Raised: the exception is noted and the task stays where it is.
RaisedWithoutLeaving(ts, i, msg) == [ts EXCEPT ![i].exc = TRUE, ![i].e = msg]

\* An exception raised inside the try block: control goes to the except clause.
Raised(ts, i, msg) == [ts EXCEPT ![i].pc = "finalize", ![i].exc = TRUE, ![i].e = msg]
Raise(i, msg) == tasks' = Raised(tasks, i, msg)

Moved(ts, i, next) == [ts EXCEPT ![i].pc = next]
Goto(i, next) == tasks' = Moved(tasks, i, next)

\* if r_merge.returncode != 0: raise Exception(error_msg), at the end of the try block.
MergeResultOf(ts, i, r_merge) ==
    IF r_merge # 0
    THEN [ts EXCEPT ![i].pc = "finalize", ![i].exc = TRUE, ![i].r_merge = r_merge,
                    ![i].e = RepoDir(i) \o <<": git merge exited with non-zero status. Output: <stdout>">>]
    ELSE [ts EXCEPT ![i].pc = "finalize", ![i].r_merge = r_merge]

MergeResult(i, r_merge) == tasks' = MergeResultOf(tasks, i, r_merge)

\* os.environ of the process: some variable, and one whose name is that of
\* a variable the task sets.
HostEnv == [v \in {"PATH", "CGM_LOGS_DIR"} |-> IF v = "PATH" THEN <<"/bin">> ELSE <<"host">>]

\* f"CGM_{key.upper()}" for the keys a descriptor can hold.
EnvVarName(key) ==
    CASE key = "repo_data_from_parameter" -> "CGM_REPO_DATA_FROM_PARAMETER"
      [] key = "repo_local_name" -> "CGM_REPO_LOCAL_NAME"
      [] key = "source_ref" -> "CGM_SOURCE_REF"
      [] key = "dest_branch" -> "CGM_DEST_BRANCH"
      [] key = "prj_and_repo_remote_name" -> "CGM_PRJ_AND_REPO_REMOTE_NAME"
      [] key = "task_start" -> "CGM_TASK_START"
      [] key = "repo_dir" -> "CGM_REPO_DIR"
      [] key = "repos_dir" -> "CGM_REPOS_DIR"
      [] key = "logs_dir" -> "CGM_LOGS_DIR"
      [] key = "merge_branch" -> "CGM_MERGE_BRANCH"
      [] key = "task_error_details" -> "CGM_TASK_ERROR_DETAILS"
      [] key = "task_end" -> "CGM_TASK_END"
      [] key = "task_duration" -> "CGM_TASK_DURATION"
      [] key = "task_finish_status" -> "CGM_TASK_FINISH_STATUS"

\* datetime.isoformat()
IsoFormat(timestamp) == <<"isoformat", timestamp>>

\* The value exposed for a key: a datetime in ISO format, anything else as it is.
EnvValue(repo_metadata, key) ==
    IF key \in {"task_start", "task_end"}
    THEN IsoFormat(repo_metadata[key]) ELSE repo_metadata[key]

\* Mutant of ExtendedEnv: the descriptor is not exposed, the scripts get the
\* environment of the host process.
ExtendedEnvOfHostOnly(repo_metadata) == HostEnv

\* Lines 392-399: a copy of os.environ with every member of repo_metadata
\* added under its CGM_ name.
ExtendedEnv(repo_metadata) ==
    LET names == {EnvVarName(key) : key \in DOMAIN repo_metadata}
    IN  [v \in DOMAIN HostEnv \cup names |->
            IF v \in names
            THEN EnvValue(repo_metadata,
                          CHOOSE key \in DOMAIN repo_metadata : EnvVarName(key) = v)
            ELSE HostEnv[v]]

\* Mutant of EnvPassed: the environment is built anew when the script is
\* started, from the descriptor and the finish status as they are then.
EnvPassedBuiltAnew(ts, i, script_env) ==
    [ts EXCEPT ![i][script_env] =
        ExtendedEnv(Put(repos_metadata[i], "task_finish_status", ts[i].task_finish_status))]

\* env=extended_env: the environment the script is started with.
EnvPassed(ts, i, script_env) == [ts EXCEPT ![i][script_env] = ts[i].extended_env]

\* Lines 366-399: everything before the try block, and the environment of
\* the scripts, that the try block builds first and that cannot raise.  An
\* exception of the template rendering leaves the function here: no except
\* or finally clause is in effect yet.  Writes to the log files are taken to
\* succeed.
TaskInit(i) ==
    /\ tasks[i].pc = "queued"
    /\ WorkerTook(i)
    /\ clock' = clock + 1
    /\ LET md1 == Put(Put(Put(Put(repos_metadata[i],
                        "task_start", clock),
                        "repo_dir", RepoDir(i)),
                        "repos_dir", ReposDir),
                        "logs_dir", LogsDir)
           r == make_mergebranch_name(cl_args.merge_branch_template, md1)
       IN  IF HasTemplate /\ r.exc # "none"
           THEN /\ SetMetadata(i, md1)
                /\ Propagate(i)
                /\ UNCHANGED logs
           ELSE LET md2 == PutIf(HasTemplate, md1, "merge_branch", r.val)
                IN  /\ logs' = log_tasks(logs, LogfileName(i),
                                  << Line(<<"Started merge-task for ">> \o RepoLocalName(i)),
                                     Snapshot(<<"repo_metadata at task-begin:">>, md2) >>)
                    /\ SetMetadata(i, Put(md2, "task_error_details", EmptyStr))
                    /\ tasks' = [tasks EXCEPT
                           ![i].pc = IF HasPreScript THEN "pre_script" ELSE "repo_check",
                           ![i].task_start_timestamp = clock,
                           ![i].task_finish_status = "successfully",
                           ![i].extended_env =
                               IF HasPreScript \/ HasPostScript
                               THEN ExtendedEnv(Put(md2, "task_error_details", EmptyStr))
                               ELSE HostEnv]
    /\ UNCHANGED <<inputs, max_workers, run, git, merge_repos, renderings, main_pc, errors, exit_code, main_exc, main_exc_msg, report, report_written>>

TaskFrame == <<inputs, max_workers, run, merge_repos, renderings, main_pc, repos_metadata, errors, exit_code, main_exc, main_exc_msg, report,
               report_written, clock>>

\* A pre- or post-script may do anything to the repository (clone it, fetch,
\* create or delete branches): what was known of its branches and HEAD is
\* known no more.
ScriptRan(i) ==
    git' = [git EXCEPT ![i] = [UnknownRepo EXCEPT !.merged_on = git[i].merged_on]]

\* Mutant of TaskPreScript: the return code of the pre-script is not honored.
TaskPreScriptNotHonoringReturncode(i) ==
    /\ tasks[i].pc = "pre_script"
    /\ \E returncode \in Returncodes :
         LET lg == log_tasks(logs, LogfileName(i),
                       << Line(<<"PRE-SCRIPT BEGIN >>>>>">>),
                          Line(<<"# Pre-script called by command:">>) >>)
             r == run_command(lg, cl_args.pre_script, RepoLocalName(i), LogfileName(i),
                              FALSE, FALSE, FALSE, returncode)
         IN  /\ logs' = log_task(r.logs, LogfileName(i), Line(<<">>>>> PRE-SCRIPT END">>))
             /\ tasks' = Moved(EnvPassed(tasks, i, "pre_script_env"), i, "repo_check")
    /\ ScriptRan(i)
    /\ UNCHANGED TaskFrame

\* Part of the mutant below: the pre-script as it is run.
PreScriptOfPresent(i) ==
    /\ tasks[i].pc = "pre_script"
    /\ \E returncode \in Returncodes :
         LET lg == log_tasks(logs, LogfileName(i),
                       << Line(<<"PRE-SCRIPT BEGIN >>>>>">>),
                          Line(<<"# Pre-script called by command:">>) >>)
             r == run_command(lg, cl_args.pre_script, RepoLocalName(i), LogfileName(i),
                              TRUE, FALSE, FALSE, returncode)
         IN  IF r.raised
             THEN /\ logs' = r.logs
                  /\ tasks' = Raised(EnvPassed(tasks, i, "pre_script_env"), i, r.msg)
             ELSE /\ logs' = log_task(r.logs, LogfileName(i), Line(<<">>>>> PRE-SCRIPT END">>))
                  /\ tasks' = Moved(EnvPassed(tasks, i, "pre_script_env"), i, "repo_check")
    /\ ScriptRan(i)
    /\ UNCHANGED TaskFrame

\* Mutant of TaskPreScript: the repository is looked for before the
\* pre-script, that is not run when the directory is absent.
TaskPreScriptAfterCheck(i) ==
    \/ /\ tasks[i].pc = "pre_script"
       /\ tasks' = [tasks EXCEPT ![i].pc = "finalize", ![i].exc = TRUE,
                        ![i].e = <<"is not a Git-repo">>, ![i].is_dir = "absent"]
       /\ UNCHANGED <<TaskFrame, logs, git>>
    \/ PreScriptOfPresent(i)

\* Lines 400-407.
TaskPreScript(i) ==
    /\ tasks[i].pc = "pre_script"
    /\ \E returncode \in Returncodes :
         LET lg == log_tasks(logs, LogfileName(i),
                       << Line(<<"PRE-SCRIPT BEGIN >>>>>">>),
                          Line(<<"# Pre-script called by command:">>) >>)
             r == run_command(lg, cl_args.pre_script, RepoLocalName(i), LogfileName(i),
                              TRUE, FALSE, FALSE, returncode)
         IN  IF r.raised
             THEN /\ logs' = r.logs
                  /\ tasks' = Raised(EnvPassed(tasks, i, "pre_script_env"), i, r.msg)
             ELSE /\ logs' = log_task(r.logs, LogfileName(i), Line(<<">>>>> PRE-SCRIPT END">>))
                  /\ tasks' = Moved(EnvPassed(tasks, i, "pre_script_env"), i, "repo_check")
    /\ ScriptRan(i)
    /\ UNCHANGED TaskFrame

\* The message of the exception of lines 411-415.
RepoMissingMsg(i) ==
    RepoDir(i) \o <<" is not a Git-repo. Repo ">> \o RepoLocalName(i)
    \o <<" is given in parameter -r/--repos-data ">>
    \o repos_metadata[i]["repo_data_from_parameter"]
    \o <<", but it is missing in parameter -d/--repos-dir ">> \o ReposDir

\* Mutant of TaskRepoCheck: a missing repository is not detected, the task
\* goes on with the git commands.
TaskRepoCheckIgnoringMissing(i) ==
    /\ tasks[i].pc = "repo_check"
    /\ \E is_dir \in BOOLEAN :
         tasks' = [tasks EXCEPT ![i].pc = "reset",
                     ![i].is_dir = IF is_dir THEN "present" ELSE "absent"]
    /\ UNCHANGED <<TaskFrame, logs, git>>

\* Lines 409-415: the repo is expected to be present.  is_dir is what
\* pathlib.Path(repo_dir, '.git').is_dir() answers; the task keeps it.
TaskRepoCheck(i) ==
    /\ tasks[i].pc = "repo_check"
    /\ \E is_dir \in BOOLEAN :
         IF ~is_dir
         THEN tasks' = [tasks EXCEPT ![i].pc = "finalize", ![i].exc = TRUE,
                          ![i].e = RepoMissingMsg(i), ![i].is_dir = "absent"]
         ELSE tasks' = [tasks EXCEPT ![i].pc = "reset", ![i].is_dir = "present"]
    /\ UNCHANGED <<TaskFrame, logs, git>>

\* A git command whose return code is honored.  The command fails when git
\* must refuse it (must_fail) and may fail for any other reason; when it
\* succeeds the repository is as git_after says.
GitStep(i, at, command, next, must_fail, git_after) ==
    /\ tasks[i].pc = at
    /\ \E returncode \in Returncodes :
         /\ must_fail => returncode # 0
         /\ LET r == run_command(logs, command, RepoLocalName(i), LogfileName(i),
                                 TRUE, FALSE, TRUE, returncode)
            IN  /\ logs' = r.logs
                /\ IF r.raised
                   THEN Raise(i, r.msg) /\ UNCHANGED git
                   ELSE Goto(i, next) /\ git' = [git EXCEPT ![i] = git_after]
    /\ UNCHANGED TaskFrame

GitC(i) == <<"git -C ">> \o RepoDir(i)

\* Line 417.
TaskReset(i) == GitStep(i, "reset", GitC(i) \o <<" reset --hard">>, "clean", FALSE, git[i])

\* Mutant of TaskClean: after the clean the task goes back to the reset.
TaskCleanThenResetAgain(i) ==
    GitStep(i, "clean", GitC(i) \o <<" clean -fd">>, "reset", FALSE, git[i])

\* Line 418.
TaskClean(i) == GitStep(i, "clean", GitC(i) \o <<" clean -fd">>, "checkout", FALSE, git[i])

\* git checkout <branch>: HEAD is at the branch, that exists.
CheckedOut(repo, branch) ==
    [repo EXCEPT !.head = branch, !.branches = @ \cup {branch}, !.missing = @ \ {branch}]

\* Line 420.
TaskCheckout(i) ==
    GitStep(i, "checkout", GitC(i) \o <<" checkout ">> \o repos_metadata[i]["dest_branch"],
            IF HasTemplate THEN "show_ref" ELSE "merge",
            repos_metadata[i]["dest_branch"] \in git[i].missing,
            CheckedOut(git[i], repos_metadata[i]["dest_branch"]))

\* Mutant of TaskShowRef: the answer of the probe is taken the wrong way
\* round, a branch that is present is created with -b.
TaskShowRefInverted(i) ==
    /\ tasks[i].pc = "show_ref"
    /\ \E returncode \in Returncodes :
         /\ repos_metadata[i]["merge_branch"] \in git[i].branches => returncode = 0
         /\ repos_metadata[i]["merge_branch"] \in git[i].missing => returncode # 0
         /\ LET r == run_command(logs,
                         GitC(i) \o <<" show-ref --verify --quiet refs/heads/">>
                                 \o repos_metadata[i]["merge_branch"],
                         RepoLocalName(i), LogfileName(i), FALSE, TRUE, TRUE, returncode)
            IN  IF r.returncode # 0
                THEN /\ logs' = log_task(r.logs, LogfileName(i),
                                         Line(<<"  (Merge-branch is present, reuse it)">>))
                     /\ tasks' = [tasks EXCEPT ![i].pc = "checkout_merge_branch", ![i].b = EmptyStr]
                     /\ git' = [git EXCEPT ![i].missing = @ \cup {repos_metadata[i]["merge_branch"]}]
                ELSE /\ logs' = log_task(r.logs, LogfileName(i),
                                         Line(<<"  (Merge-branch not present)">>))
                     /\ tasks' = [tasks EXCEPT ![i].pc = "checkout_merge_branch", ![i].b = <<"-b ">>]
                     /\ git' = [git EXCEPT ![i].branches = @ \cup {repos_metadata[i]["merge_branch"]}]
    /\ UNCHANGED TaskFrame

\* Lines 426-433: probe for the merge-branch, return code not honored.
\* show-ref exits with 0 when the branch exists and with 1 when it does not;
\* the probe of a branch of which nothing is known yet may find either.
TaskShowRef(i) ==
    /\ tasks[i].pc = "show_ref"
    /\ \E returncode \in Returncodes :
         /\ repos_metadata[i]["merge_branch"] \in git[i].branches => returncode = 0
         /\ repos_metadata[i]["merge_branch"] \in git[i].missing => returncode # 0
         /\ LET r == run_command(logs,
                         GitC(i) \o <<" show-ref --verify --quiet refs/heads/">>
                                 \o repos_metadata[i]["merge_branch"],
                         RepoLocalName(i), LogfileName(i), FALSE, TRUE, TRUE, returncode)
            IN  IF r.returncode = 0
                THEN /\ logs' = log_task(r.logs, LogfileName(i),
                                         Line(<<"  (Merge-branch is present, reuse it)">>))
                     /\ tasks' = [tasks EXCEPT ![i].pc = "checkout_merge_branch", ![i].b = EmptyStr]
                     /\ git' = [git EXCEPT ![i].branches = @ \cup {repos_metadata[i]["merge_branch"]}]
                ELSE /\ logs' = log_task(r.logs, LogfileName(i),
                                         Line(<<"  (Merge-branch not present)">>))
                     /\ tasks' = [tasks EXCEPT ![i].pc = "checkout_merge_branch", ![i].b = <<"-b ">>]
                     /\ git' = [git EXCEPT ![i].missing = @ \cup {repos_metadata[i]["merge_branch"]}]
    /\ UNCHANGED TaskFrame

\* Lines 435-436.  git refuses checkout -b of a branch that exists and the
\* plain checkout of a branch that does not.
TaskCheckoutMergeBranch(i) ==
    GitStep(i, "checkout_merge_branch",
            GitC(i) \o <<" checkout ">> \o tasks[i].b \o repos_metadata[i]["merge_branch"],
            "merge",
            IF tasks[i].b = EmptyStr
            THEN repos_metadata[i]["merge_branch"] \in git[i].missing
            ELSE repos_metadata[i]["merge_branch"] \in git[i].branches,
            CheckedOut(git[i], repos_metadata[i]["merge_branch"]))

\* Mutant of Merged: the merge is taken back, no branch keeps it.
MergedAndRolledBack(i) == git' = [git EXCEPT ![i].merged_on = {}]

\* git merge works on the branch HEAD is at.
Merged(i) == git' = [git EXCEPT ![i].merged_on = @ \cup {git[i].head}]

\* Mutant of TaskMerge: the return code of the merge is honored, so that a
\* failed merge raises at once.
TaskMergeHonoringReturncode(i) ==
    /\ tasks[i].pc = "merge"
    /\ \E returncode \in Returncodes :
         LET r == run_command(logs,
                      GitC(i) \o <<" merge --no-edit ">> \o MergeOptions \o <<" ">>
                              \o repos_metadata[i]["source_ref"],
                      RepoLocalName(i), LogfileName(i), TRUE, FALSE, TRUE, returncode)
         IN  /\ logs' = r.logs
             /\ Merged(i)
             /\ IF r.raised
                THEN tasks' = [tasks EXCEPT ![i].pc = "finalize", ![i].exc = TRUE,
                                 ![i].e = r.msg, ![i].r_merge = r.returncode]
                ELSE IF HasPostScript
                     THEN tasks' = [tasks EXCEPT ![i].pc = "post_script",
                                      ![i].r_merge = r.returncode]
                     ELSE MergeResult(i, r.returncode)
    /\ UNCHANGED TaskFrame

\* Lines 440-441 (and 451-454 when no post-script is configured).
TaskMerge(i) ==
    /\ tasks[i].pc = "merge"
    /\ \E returncode \in Returncodes :
         LET r == run_command(logs,
                      GitC(i) \o <<" merge --no-edit ">> \o MergeOptions \o <<" ">>
                              \o repos_metadata[i]["source_ref"],
                      RepoLocalName(i), LogfileName(i), FALSE, FALSE, TRUE, returncode)
         IN  /\ logs' = r.logs
             /\ Merged(i)
             /\ IF HasPostScript
                THEN tasks' = [tasks EXCEPT ![i].pc = "post_script", ![i].r_merge = r.returncode]
                ELSE MergeResult(i, r.returncode)
    /\ UNCHANGED TaskFrame

\* Mutant of TaskPostScript: when the merge had failed, its error is the one
\* raised, whatever the post-script did.
TaskPostScriptKeepingMergeError(i) ==
    /\ tasks[i].pc = "post_script"
    /\ \E returncode \in Returncodes :
         LET lg == log_task(logs, LogfileName(i), Line(<<"POST-SCRIPT BEGIN >>>>>">>))
             r == run_command(lg, cl_args.post_script, RepoLocalName(i), LogfileName(i),
                              TRUE, FALSE, FALSE, returncode)
         IN  IF r.raised
             THEN /\ logs' = r.logs
                  /\ tasks' = IF tasks[i].r_merge # 0
                             THEN MergeResultOf(EnvPassed(tasks, i, "post_script_env"), i,
                                                tasks[i].r_merge)
                             ELSE Raised(EnvPassed(tasks, i, "post_script_env"), i, r.msg)
             ELSE /\ logs' = log_task(r.logs, LogfileName(i), Line(<<">>>>> POST-SCRIPT END">>))
                  /\ tasks' = MergeResultOf(EnvPassed(tasks, i, "post_script_env"), i,
                                            tasks[i].r_merge)
    /\ ScriptRan(i)
    /\ UNCHANGED TaskFrame

\* Lines 443-454.
TaskPostScript(i) ==
    /\ tasks[i].pc = "post_script"
    /\ \E returncode \in Returncodes :
         LET lg == log_task(logs, LogfileName(i), Line(<<"POST-SCRIPT BEGIN >>>>>">>))
             r == run_command(lg, cl_args.post_script, RepoLocalName(i), LogfileName(i),
                              TRUE, FALSE, FALSE, returncode)
         IN  IF r.raised
             THEN /\ logs' = r.logs
                  /\ tasks' = Raised(EnvPassed(tasks, i, "post_script_env"), i, r.msg)
             ELSE /\ logs' = log_task(r.logs, LogfileName(i), Line(<<">>>>> POST-SCRIPT END">>))
                  /\ tasks' = MergeResultOf(EnvPassed(tasks, i, "post_script_env"), i,
                                            tasks[i].r_merge)
    /\ ScriptRan(i)
    /\ UNCHANGED TaskFrame

\* Mutant of TaskFinalize: the except clause leaves task_finish_status as
\* it was set before the try block.
TaskFinalizeKeepingStatus(i) ==
    /\ tasks[i].pc = "finalize"
    /\ clock' = clock + 1
    /\ LET task_finish_status == tasks[i].task_finish_status
           md0 == PutIf(tasks[i].exc, repos_metadata[i], "task_error_details", tasks[i].e)
           md1 == Put(Put(Put(md0,
                        "task_end", clock),
                        "task_duration", clock - tasks[i].task_start_timestamp),
                        "task_finish_status", task_finish_status)
       IN  /\ SetMetadata(i, md1)
           /\ tasks' = [tasks EXCEPT ![i].pc = "done",
                          ![i].task_finish_status = task_finish_status,
                          ![i].returned = IF tasks[i].exc
                                          THEN <<RepoLocalName(i), tasks[i].e>> ELSE << >>]
           /\ logs' = log_tasks(logs, LogfileName(i),
                        << Line(<<"Merge-task for ">> \o RepoLocalName(i) \o <<" finished ">>
                                \o <<task_finish_status>>),
                           Snapshot(<<"repo_metadata at task-end:">>, md1) >>)
    /\ UNCHANGED <<inputs, max_workers, run, git, merge_repos, renderings, main_pc, errors, exit_code, main_exc, main_exc_msg, report, report_written>>

\* Lines 456-473: the except clause, when an exception is pending, and the
\* finally clause.
TaskFinalize(i) ==
    /\ tasks[i].pc = "finalize"
    /\ clock' = clock + 1
    /\ LET task_finish_status == IF tasks[i].exc THEN "with FAILURE" ELSE tasks[i].task_finish_status
           md0 == PutIf(tasks[i].exc, repos_metadata[i], "task_error_details", tasks[i].e)
           md1 == Put(Put(Put(md0,
                        "task_end", clock),
                        "task_duration", clock - tasks[i].task_start_timestamp),
                        "task_finish_status", task_finish_status)
       IN  /\ SetMetadata(i, md1)
           /\ tasks' = [tasks EXCEPT ![i].pc = "done",
                          ![i].task_finish_status = task_finish_status,
                          ![i].returned = IF tasks[i].exc
                                          THEN <<RepoLocalName(i), tasks[i].e>> ELSE << >>]
           /\ logs' = log_tasks(logs, LogfileName(i),
                        << Line(<<"Merge-task for ">> \o RepoLocalName(i) \o <<" finished ">>
                                \o <<task_finish_status>>),
                           Snapshot(<<"repo_metadata at task-end:">>, md1) >>)
    /\ UNCHANGED <<inputs, max_workers, run, git, merge_repos, renderings, main_pc, errors, exit_code, main_exc, main_exc_msg, report, report_written>>

(***************************************************************************)
(* main(): the pool, the report and the exit status.                       *)
(***************************************************************************)
\* executor.map(execute_merge, repos_metadata): one work item per descriptor.
MainSubmit ==
    /\ main_pc = "submit"
    /\ tasks' = [i \in Tasks |-> [tasks[i] EXCEPT !.pc = "queued"]]
    /\ main_pc' = "join"
    /\ UNCHANGED <<inputs, max_workers, run, git, merge_repos, renderings, repos_metadata, errors, exit_code, main_exc, main_exc_msg, report,
                   report_written, logs, clock>>

\* Mutant of MainJoin: main() goes on as soon as one work item has run.
MainJoinFirstCompleted ==
    /\ main_pc = "join"
    /\ \E i \in Tasks : Terminated(i)
    /\ main_pc' = "report"
    /\ UNCHANGED <<inputs, max_workers, run, git, merge_repos, renderings, repos_metadata, errors, exit_code, main_exc, main_exc_msg, report,
                   report_written, tasks, logs, clock>>

\* Leaving the with block: shutdown(wait=True) returns when every work item
\* has run, whether it returned or raised.
MainJoin ==
    /\ main_pc = "join"
    /\ \A i \in Tasks : Terminated(i)
    /\ main_pc' = "report"
    /\ UNCHANGED <<inputs, max_workers, run, git, merge_repos, renderings, repos_metadata, errors, exit_code, main_exc, main_exc_msg, report,
                   report_written, tasks, logs, clock>>

ReportedKeys ==
    {"repo_local_name", "source_ref", "dest_branch", "task_duration", "task_finish_status",
     "task_error_details"}

ReportRow(repo_metadata) ==
    [repo_local_name |-> repo_metadata["repo_local_name"],
     branches |-> <<"SR: ">> \o repo_metadata["source_ref"] \o <<"<br>DB: ">>
                  \o repo_metadata["dest_branch"],
     task_duration |-> repo_metadata["task_duration"],
     task_finish_status |-> repo_metadata["task_finish_status"],
     task_error_details |-> repo_metadata["task_error_details"]]

\* Mutant of IsError: is_error is assigned, not only set, in every pass of the
\* loop, so that the last descriptor decides.
IsErrorOfLast(repos_md) == repos_md[Len(repos_md)]["task_error_details"] # EmptyStr

\* is_error: some descriptor has a truthy task_error_details.
IsError(repos_md) ==
    \E i \in 1..Len(repos_md) : repos_md[i]["task_error_details"] # EmptyStr

\* Mutant of MainReport: the rows are written in the order in which the
\* tasks finished.
MainReportInCompletionOrder ==
    /\ main_pc = "report"
    /\ IF \E i \in 1..Len(repos_metadata) : ~(ReportedKeys \subseteq DOMAIN repos_metadata[i])
       THEN /\ Unhandled("KeyError", <<"task_error_details">>)
            /\ UNCHANGED <<report, report_written>>
       ELSE /\ report' = [k \in 1..Len(repos_metadata) |->
                            ReportRow(repos_metadata[
                                CHOOSE i \in 1..Len(repos_metadata) :
                                    Cardinality({j \in 1..Len(repos_metadata) :
                                        repos_metadata[j]["task_end"] < repos_metadata[i]["task_end"]})
                                    = k - 1])]
            /\ report_written' = TRUE
            /\ SysExit(IF IsError(repos_metadata) THEN 1 ELSE 0)
    /\ UNCHANGED <<inputs, max_workers, run, git, merge_repos, renderings, repos_metadata, errors, tasks, logs, clock>>

\* Lines 526-560: the result tables, report.html and the exit status.
MainReport ==
    /\ main_pc = "report"
    /\ IF \E i \in 1..Len(repos_metadata) : ~(ReportedKeys \subseteq DOMAIN repos_metadata[i])
       THEN /\ Unhandled("KeyError", <<"task_error_details">>)
            /\ UNCHANGED <<report, report_written>>
       ELSE /\ report' = [i \in 1..Len(repos_metadata) |-> ReportRow(repos_metadata[i])]
            /\ report_written' = TRUE
            /\ SysExit(IF IsError(repos_metadata) THEN 1 ELSE 0)
    /\ UNCHANGED <<inputs, max_workers, run, git, merge_repos, renderings, repos_metadata, errors, tasks, logs, clock>>

(***************************************************************************)
(* Specifications.                                                         *)
(***************************************************************************)
TaskNext(i) ==
    \/ TaskInit(i)
    \/ TaskPreScript(i)
    \/ TaskRepoCheck(i)
    \/ TaskReset(i)
    \/ TaskClean(i)
    \/ TaskCheckout(i)
    \/ TaskShowRef(i)
    \/ TaskCheckoutMergeBranch(i)
    \/ TaskMerge(i)
    \/ TaskPostScript(i)
    \/ TaskFinalize(i)

Next ==
    \/ MainMakeReposMetadata
    \/ MainValidate
    \/ MainSubmit
    \/ MainJoin
    \/ MainReport
    \/ \E i \in Tasks : TaskNext(i)

Spec == Init /\ [][Next]_vars

(***************************************************************************)
(* A run in which every thread that can take a step takes one sooner or    *)
(* later: main(), and each worker with the execute_merge it is running.    *)
(* Every external command returns: a step of a task is the whole command.  *)
(***************************************************************************)
MaxLiveRepos == 2

LiveSpecs == { <<"a">>, <<"b", ":", "s", ":", "d", ":", "r">> }

\* The command lines: no option given, or a template with both scripts.
LiveArgs ==
    {[merge_branch_template |-> NoTemplate, pre_script |-> EmptyStr,
      post_script |-> EmptyStr]}
    \cup [merge_branch_template : Templates \ {NoTemplate}, pre_script : {<<"pre.sh">>},
          post_script : {<<"post.sh">>}]

InitLive ==
    /\ repos_data \in ListsOf(LiveSpecs, MaxLiveRepos)
    /\ default_source_ref = <<"m">>
    /\ default_dest_branch = <<"m">>
    /\ cl_args \in LiveArgs
    /\ InitRun
    /\ InitEnv

\* The steps of main().
MainNext ==
    \/ MainMakeReposMetadata
    \/ MainValidate
    \/ MainSubmit
    \/ MainJoin
    \/ MainReport

Fairness ==
    /\ WF_vars(MainNext)
    /\ \A i \in 1..MaxLiveRepos : WF_vars(i \in Tasks /\ TaskNext(i))

SpecLive == InitLive /\ [][Next]_vars /\ Fairness

(***************************************************************************)
(* The pool with more work items than threads.  The queue of the executor  *)
(* does not depend on the number of its threads, so the pools taken here   *)
(* are smaller than the min(32, cpus + 4) >= 5 of ThreadPoolExecutor():    *)
(* lists longer than the pool stay within reach.  The runs are on a        *)
(* directory that holds no repository, with no script and no template:     *)
(* every task ends at the check of line 410.                               *)
(***************************************************************************)
MaxWorkers == 2

PoolSpecs == { <<"a">>, <<"b">>, <<"c">> }

PoolArgs ==
    [merge_branch_template |-> NoTemplate, pre_script |-> EmptyStr, post_script |-> EmptyStr]

InitPool ==
    /\ repos_data \in {l \in ListsOf(PoolSpecs, MaxRepos) :
                          \A i, j \in 1..Len(l) : l[i] = l[j] => i = j}
    /\ default_source_ref = <<"m">>
    /\ default_dest_branch = <<"m">>
    /\ cl_args = PoolArgs
    /\ InitRun
    /\ run = 1
    /\ git = [i \in 1..Len(repos_data) |-> UnknownRepo]
    /\ max_workers \in 1..MaxWorkers
    /\ merge_repos = NotImported
    /\ renderings = NoRenderings

\* pathlib.Path(repo_dir, '.git').is_dir() is False: no repository is there.
TaskRepoAbsent(i) == TaskRepoCheck(i) /\ tasks'[i].is_dir = "absent"

TaskNextPool(i) ==
    \/ TaskInit(i)
    \/ TaskRepoAbsent(i)
    \/ TaskFinalize(i)

NextPool ==
    \/ MainMakeReposMetadata
    \/ MainValidate
    \/ MainSubmit
    \/ MainJoin
    \/ MainReport
    \/ \E i \in Tasks : TaskNextPool(i)

FairnessPool ==
    /\ WF_vars(MainNext)
    /\ \A i \in 1..MaxRepos : WF_vars(i \in Tasks /\ TaskNextPool(i))

SpecPool == InitPool /\ [][NextPool]_vars /\ FairnessPool

(***************************************************************************)
(* Two runs of the program, one after the other, with the same command     *)
(* line and a merge-branch template, on repositories that are touched by   *)
(* nothing else: the second run finds them as the first run left them.     *)
(***************************************************************************)
GitSpecs ==
    { <<"a">>,
      <<"b", ":", "s", ":", "d", ":", "r">>,
      <<"a", ":", ":", "d">>,
      <<"b", ":", "s">> }

\* One repository per run: the runs of several repositories at a time are
\* those of Spec.
InitGit ==
    /\ repos_data \in {<<s>> : s \in GitSpecs}
    /\ default_source_ref \in RunDefaults
    /\ default_dest_branch \in RunDefaults
    /\ cl_args \in [merge_branch_template : Templates \ {NoTemplate},
                    pre_script : {EmptyStr}, post_script : {EmptyStr}]
    /\ InitRun
    /\ InitEnv

\* The program is started again: a new process, that finds the repositories,
\* the log files and report.html of the first run.
MainRestart ==
    /\ main_pc = "exited"
    /\ run = 1
    /\ run' = 2
    /\ main_pc' = "make_repos_metadata"
    /\ repos_metadata' = << >>
    /\ errors' = << >>
    /\ exit_code' = NoExit
    /\ main_exc' = "none"
    /\ main_exc_msg' = EmptyStr
    /\ report_written' = FALSE
    /\ tasks' = [i \in 1..Len(repos_data) |-> NewTask]
    /\ UNCHANGED <<inputs, max_workers, report, logs, clock, git, merge_repos, renderings>>

TaskNextGit(i) ==
    \/ TaskInit(i)
    \/ TaskRepoCheck(i)
    \/ TaskReset(i)
    \/ TaskClean(i)
    \/ TaskCheckout(i)
    \/ TaskShowRef(i)
    \/ TaskCheckoutMergeBranch(i)
    \/ TaskMerge(i)
    \/ TaskFinalize(i)

NextGit ==
    \/ MainMakeReposMetadata
    \/ MainValidate
    \/ MainSubmit
    \/ MainJoin
    \/ MainReport
    \/ MainRestart
    \/ \E i \in Tasks : TaskNextGit(i)

SpecGit == InitGit /\ [][NextGit]_vars

(***************************************************************************)
(* The builder and the validation pass alone, over a wider set of specs:   *)
(* every spec of up to MaxFields fields taken from FieldValues, given      *)
(* alone, and every list of up to MaxRepos specs taken from SmallSpecs.    *)
(***************************************************************************)
FieldValues == {EmptyStr, <<"a">>, <<" ", "b", " ">>, <<" ">>}

RichSpecs == {Join(f) : f \in ListsOf(FieldValues, MaxFields)}

SmallSpecs ==
    { <<"a">>,
      <<"b">>,
      <<" ", "a">>,
      <<"a", ":", "s", ":", "d">>,
      EmptyStr,
      <<":", "s", ":", "d">>,
      <<"b", ":", ":", ":", ":">> }

BuildDefaults == {EmptyStr, <<" ", "m">>}

InitBuild ==
    /\ repos_data \in {<<s>> : s \in RichSpecs} \cup ListsOf(SmallSpecs, MaxRepos)
    /\ default_source_ref \in BuildDefaults
    /\ default_dest_branch \in BuildDefaults
    /\ cl_args = [merge_branch_template |-> NoTemplate, pre_script |-> EmptyStr,
                  post_script |-> EmptyStr]
    /\ InitRun
    /\ InitEnv

NextBuild ==
    \/ MainMakeReposMetadata
    \/ MainValidate

SpecBuild == InitBuild /\ [][NextBuild]_vars

(***************************************************************************)
(* make_mergebranch_name of merge_repos.py applied to patterns: the pattern *)
(* is put together from pieces, the branches and the start of the program  *)
(* are drawn from small sets.                                              *)
(***************************************************************************)
MaxPieces == 3

\* g_start_timestamp = datetime.now(): the fields of it that strftime is
\* asked for.
Jan01 == [b |-> <<"J", "a", "n">>, d |-> <<"0", "1">>, m |-> <<"0", "1">>, y |-> <<"2", "3">>]
Feb02 == [b |-> <<"F", "e", "b">>, d |-> <<"0", "2">>, m |-> <<"0", "2">>, y |-> <<"2", "4">>]
Timestamps == {Jan01, Feb02}

PatternPieces ==
    { SBR,
      DBR,
      <<"%", "D", "A", "T", "E", "(", "%", "b", "%", "d", ")">>,
      <<"%", "D", "A", "T", "E", "(", ")">>,
      <<"m", "_">>,
      <<")">>,
      <<"(", "y", ")">> }

RECURSIVE Concat(_)
Concat(pieces) == IF pieces = << >> THEN EmptyStr ELSE Head(pieces) \o Concat(Tail(pieces))

\* The patterns of src/tests/unit/test_make_mergebranch_name.py.
TestPatterns ==
    { <<"m", "e", "r", "g", "e", "/", "f", "r", "o", "m", "_", "%", "S", "B", "R", "_", "i", "n", "t", "o", "_", "%", "D", "B", "R", "_", "%", "D", "A", "T", "E", "(", "%", "b", "%", "d", ")">>,
      <<"m", "e", "r", "g", "e", "/", "f", "r", "o", "m", "_", "%", "S", "B", "R", "_", "i", "n", "t", "o", "_", "%", "D", "B", "R">>,
      <<"m", "e", "r", "g", "e", "/", "f", "r", "o", "m", "_", "%", "S", "B", "R", "_", "i", "n", "t", "o", "_", "%", "D", "B", "R", "_", "%", "D", "A", "T", "E", "(", ")">> }

Patterns == {Concat(pieces) : pieces \in ListsOf(PatternPieces, MaxPieces)} \cup TestPatterns

SourceBranches == {<<"S">>, <<"S", "O", "U", "R", "C", "E", "-", "B", "R", "A", "N", "C", "H">>}
DestBranches == {<<"D">>, <<"D", "E", "S", "T", "-", "B", "R", "A", "N", "C", "H">>}

\* No run of concurrent_git_merge.py takes place.
InitNoRun ==
    /\ repos_data = << <<"a">> >>
    /\ default_source_ref = EmptyStr
    /\ default_dest_branch = EmptyStr
    /\ InitRun
    /\ run = 1
    /\ git = [i \in 1..Len(repos_data) |-> UnknownRepo]
    /\ max_workers = PoolSize(1)
    /\ renderings = NoRenderings

InitPattern ==
    /\ cl_args = [merge_branch_template |-> NoTemplate, pre_script |-> EmptyStr,
                  post_script |-> EmptyStr]
    /\ InitNoRun
    /\ merge_repos \in [pc : {"called"}, g_start_timestamp : Timestamps,
                         merge_branch_pattern : Patterns, source_branch : SourceBranches,
                         dest_branch : DestBranches, merge_branch : {EmptyStr}]

\* What a call of make_mergebranch_name leaves behind: the arguments, the
\* reading of the clock at the call, and the result.
Rendering(template, descriptor, exc, merge_branch) ==
    [template |-> template, descriptor |-> descriptor, at |-> clock, exc |-> exc,
     merge_branch |-> merge_branch]

\* Lines 284-291 of merge_repos.py, called with the arguments held in
\* merge_repos.
MergeReposRender ==
    /\ merge_repos.pc = "called"
    /\ LET b == merge_repos_make_mergebranch_name(merge_repos.merge_branch_pattern,
                     merge_repos.source_branch, merge_repos.dest_branch,
                     merge_repos.g_start_timestamp)
       IN  /\ merge_repos' = [merge_repos EXCEPT !.pc = "returned", !.merge_branch = b]
           /\ renderings' = [renderings EXCEPT !.merge_repos = @ \cup
                   {Rendering(merge_repos.merge_branch_pattern,
                              [source_branch |-> merge_repos.source_branch,
                               dest_branch |-> merge_repos.dest_branch,
                               task_start |-> merge_repos.g_start_timestamp],
                              "none", b)}]
    /\ UNCHANGED <<inputs, max_workers, run, git, main_pc, repos_metadata, errors, exit_code, main_exc,
                   main_exc_msg, report, report_written, tasks, logs, clock>>

SpecPattern == InitPattern /\ [][MergeReposRender]_vars

(***************************************************************************)
(* The two make_mergebranch_name called again and again, while time goes   *)
(* by.                                                                     *)
(***************************************************************************)
MaxClock == 1

\* The templates of the runs, and one that asks for the time of the day.
RenderTemplates ==
    (Templates \ {NoTemplate}) \cup
        { <<Field("dest_branch"), Text(<<"_">>), Now("task_start")>> }

\* Descriptors as execute_merge hands them to make_mergebranch_name.
RenderDescriptor(repo_data_from_parameter, task_start) ==
    Put(ApplyDefaults(make_repo_metadata(repo_data_from_parameter).val, <<"m">>, <<"m">>),
        "task_start", task_start)

RenderDescriptors ==
    { RenderDescriptor(<<"a">>, 0),
      RenderDescriptor(<<"b", ":", "s", ":", "d", ":", "r">>, 0) }

InitRender ==
    /\ cl_args \in [merge_branch_template : RenderTemplates, pre_script : {EmptyStr},
                    post_script : {EmptyStr}]
    /\ InitNoRun
    /\ merge_repos \in [pc : {"imported"}, g_start_timestamp : Timestamps,
                         merge_branch_pattern : {EmptyStr}, source_branch : {EmptyStr},
                         dest_branch : {EmptyStr}, merge_branch : {EmptyStr}]

\* Time goes by.
Tick ==
    /\ clock < MaxClock
    /\ clock' = clock + 1
    /\ UNCHANGED <<inputs, max_workers, run, git, merge_repos, renderings, main_pc, repos_metadata, errors,
                   exit_code, main_exc, main_exc_msg, report, report_written, tasks, logs>>

\* Lines 378-379 of concurrent_git_merge.py: make_mergebranch_name is called
\* with the template of the command line and a descriptor.
RenderCall ==
    /\ HasTemplate
    /\ \E repo_metadata \in RenderDescriptors :
         LET r == make_mergebranch_name(cl_args.merge_branch_template, repo_metadata)
         IN  renderings' = [renderings EXCEPT !.concurrent_git_merge = @ \cup
                 {Rendering(cl_args.merge_branch_template, repo_metadata, r.exc, r.val)}]
    /\ UNCHANGED <<inputs, max_workers, run, git, merge_repos, main_pc, repos_metadata, errors, exit_code,
                   main_exc, main_exc_msg, report, report_written, tasks, logs, clock>>

\* The pattern of the command line of merge_repos.py: the same for every
\* repository of a run.
RenderPatterns == { <<"m", "e", "r", "g", "e", "/", "f", "r", "o", "m", "_", "%", "S", "B", "R", "_", "i", "n", "t", "o", "_", "%", "D", "B", "R", "_", "%", "D", "A", "T", "E", "(", "%", "b", "%", "d", ")">> }

\* merge_repos.py calls its make_mergebranch_name for the next repository.
MergeReposCall ==
    /\ merge_repos.pc \in {"imported", "returned"}
    /\ \E merge_branch_pattern \in RenderPatterns :
         merge_repos' = [merge_repos EXCEPT !.pc = "called",
                           !.merge_branch_pattern = merge_branch_pattern,
                           !.source_branch = <<"S">>, !.dest_branch = <<"D">>,
                           !.merge_branch = EmptyStr]
    /\ UNCHANGED <<inputs, max_workers, run, git, renderings, main_pc, repos_metadata, errors, exit_code,
                   main_exc, main_exc_msg, report, report_written, tasks, logs, clock>>

NextRender ==
    \/ Tick
    \/ RenderCall
    \/ MergeReposCall
    \/ MergeReposRender

SpecRender == InitRender /\ [][NextRender]_vars

(***************************************************************************)
(* execute_merge of merge_repos.py (lines 294-369) on one repository, the  *)
(* program being started up to MaxRuns times on the same repository.  The  *)
(* repository is held exactly: the commit of every local branch and the    *)
(* branch HEAD is at.  No pre-merge-script is configured.                  *)
(***************************************************************************)
MaxRuns == 2

\* -m/--merge-branch-pattern: not given, a name made from the dest-branch,
\* the dest-branch itself, the source-branch itself, a name with the day of
\* the start of the program.
RecreatePatterns ==
    { EmptyStr,
      <<"m", "_">> \o DBR,
      DBR,
      SBR,
      <<"m", "_", "%", "D", "A", "T", "E", "(", "%", "d", ")">> }

\* A git command of execute_merge: the subcommand and its argument.
GitCommand(git_subcommand, arg) == [git |-> git_subcommand, arg |-> arg]

\* The commit a merge of commit theirs into commit ours leaves: ours when
\* there is nothing to merge, a new commit otherwise.
MergeCommit(ours, theirs) ==
    IF ours = theirs THEN ours ELSE <<"(">> \o ours \o <<"+">> \o theirs \o <<")">>

\* git refuses the command in this repository.
GitRefuses(repo, command) ==
    CASE command.git = "checkout" -> command.arg \notin DOMAIN repo.refs
      [] command.git = "branch -D" ->
            command.arg \notin DOMAIN repo.refs \/ command.arg = repo.head
      [] command.git = "checkout -b" -> command.arg \in DOMAIN repo.refs
      [] command.git = "merge" -> command.arg \notin DOMAIN repo.refs
      [] OTHER -> FALSE

\* The repositories the command can leave when it exits with 0.
GitLeaves(repo, command) ==
    CASE command.git = "checkout" -> {[repo EXCEPT !.head = command.arg]}
      [] command.git = "pull --ff" ->
            {repo, [repo EXCEPT !.refs[repo.head] = @ \o <<"'">>]}
      [] command.git = "branch -D" ->
            {[repo EXCEPT !.refs = [b \in DOMAIN repo.refs \ {command.arg} |-> repo.refs[b]]]}
      [] command.git = "checkout -b" ->
            {[refs |-> [b \in DOMAIN repo.refs \cup {command.arg} |->
                           IF b = command.arg THEN repo.refs[repo.head] ELSE repo.refs[b]],
              head |-> command.arg]}
      [] command.git = "merge" ->
            {[repo EXCEPT !.refs[repo.head] = MergeCommit(@, repo.refs[command.arg])]}
      [] OTHER -> {repo}

\* Mutant of SetupCommands: a merge-branch that is present is checked out
\* and reused.
SetupCommandsReusing(returncode, merge_branch) ==
    IF returncode = 0
    THEN << GitCommand("checkout", merge_branch) >>
    ELSE << GitCommand("checkout -b", merge_branch) >>

\* Lines 346-350: what the answer of the probe appends to commands.
SetupCommands(returncode, merge_branch) ==
    (IF returncode = 0 THEN << GitCommand("branch -D", merge_branch) >> ELSE << >>)
    \o << GitCommand("checkout -b", merge_branch) >>

\* A line of the log file of the task: the command and its return code.
MrLogged(command, returncode) == [command |-> command, returncode |-> returncode]

\* A line of the log file that is no command.
MrNote(text) == [command |-> GitCommand("#", text), returncode |-> 0]

NotPresentNote == MrNote(<<"  (Merge-branch not present)">>)

\* log_task for the run that is under way: every run has its own directory
\* of log files.
MrLog(mr, entry) == [mr EXCEPT !.logfiles[run] = Append(@, entry)]

\* The repository before the first run: the dest-branch and the source-branch
\* exist, a branch named m_D may be left over from earlier work.
RecreateRepos ==
    LET base == [b \in {<<"D">>, <<"S">>} |-> IF b = <<"D">> THEN <<"d">> ELSE <<"s">>]
        left == [b \in {<<"D">>, <<"S">>, <<"m", "_", "D">>} |->
                    IF b = <<"D">> THEN <<"d">> ELSE IF b = <<"S">> THEN <<"s">> ELSE <<"x">>]
    IN  {[refs |-> base, head |-> <<"D">>], [refs |-> base, head |-> <<"S">>],
         [refs |-> left, head |-> <<"D">>], [refs |-> left, head |-> <<"m", "_", "D">>]}

InitRecreate ==
    /\ cl_args = [merge_branch_template |-> NoTemplate, pre_script |-> EmptyStr,
                  post_script |-> EmptyStr]
    /\ InitNoRun
    /\ merge_repos \in [pc : {"start"}, g_start_timestamp : Timestamps,
                         merge_branch_pattern : RecreatePatterns, local : BOOLEAN,
                         source_branch : {<<"S">>}, dest_branch : {<<"D">>},
                         merge_branch : {EmptyStr}, commands : {<< >>}, e : {EmptyStr},
                         repo : RecreateRepos, logfiles : {<< << >> >>}]

MrFrame == <<inputs, max_workers, git, renderings, main_pc, repos_metadata, errors, exit_code, main_exc, main_exc_msg, report, report_written, tasks, logs, clock>>

\* Mutant of MrBegin: the pull is appended when --local is given, and only
\* then.
MrBeginPullingWhenLocal ==
    /\ merge_repos.pc = "start"
    /\ \E is_dir \in BOOLEAN :
         IF ~is_dir
         THEN merge_repos' = [merge_repos EXCEPT !.pc = "returned",
                                 !.e = <<"Repo is missing in parameter -d/--repos-dir">>]
         ELSE merge_repos' = [merge_repos EXCEPT !.pc = "run_commands",
                 !.commands = << GitCommand("reset --hard", EmptyStr),
                                 GitCommand("clean -fd", EmptyStr),
                                 GitCommand("checkout", merge_repos.dest_branch) >>
                              \o (IF ~merge_repos.local THEN << >>
                                  ELSE << GitCommand("pull --ff", EmptyStr) >>)]
    /\ UNCHANGED <<MrFrame, run>>

\* Lines 295-334: the start of the task, the check that the repository is
\* there, and the first list of commands.
MrBegin ==
    /\ merge_repos.pc = "start"
    /\ \E is_dir \in BOOLEAN :
         IF ~is_dir
         THEN merge_repos' = [merge_repos EXCEPT !.pc = "returned",
                                 !.e = <<"Repo is missing in parameter -d/--repos-dir">>]
         ELSE merge_repos' = [merge_repos EXCEPT !.pc = "run_commands",
                 !.commands = << GitCommand("reset --hard", EmptyStr),
                                 GitCommand("clean -fd", EmptyStr),
                                 GitCommand("checkout", merge_repos.dest_branch) >>
                              \o (IF merge_repos.local THEN << >>
                                  ELSE << GitCommand("pull --ff", EmptyStr) >>)]
    /\ UNCHANGED <<MrFrame, run>>

\* run_commands (lines 278-281): the next command of the list, its return
\* code honored.  After the first list comes the probe, after the second
\* the task returns.
MrRunCommand ==
    /\ merge_repos.pc \in {"run_commands", "run_commands_merge"}
    /\ merge_repos.commands # << >>
    /\ LET command == Head(merge_repos.commands)
       IN  \E returncode \in Returncodes :
             /\ GitRefuses(merge_repos.repo, command) => returncode # 0
             /\ LET logged == MrLog(merge_repos, MrLogged(command, returncode))
                IN  IF returncode # 0
                    THEN merge_repos' = [logged EXCEPT !.pc = "returned", !.commands = << >>,
                                            !.e = <<"The following command exited with exit-code 1">>]
                    ELSE \E repo \in GitLeaves(merge_repos.repo, command) :
                           merge_repos' = [logged EXCEPT
                               !.repo = repo,
                               !.commands = Tail(@),
                               !.pc = IF Len(merge_repos.commands) > 1 THEN @
                                      ELSE IF @ = "run_commands" THEN "probe" ELSE "returned"]
    /\ UNCHANGED <<MrFrame, run>>

\* Lines 336-354: commands.clear(), and with a pattern the rendering of the
\* name and the probe, its return code not honored: show-ref exits with 0
\* when the branch exists and with 1 when it does not.
MrProbe ==
    /\ merge_repos.pc = "probe"
    /\ IF merge_repos.merge_branch_pattern # EmptyStr
       THEN LET merge_branch == merge_repos_make_mergebranch_name(
                                    merge_repos.merge_branch_pattern, merge_repos.source_branch,
                                    merge_repos.dest_branch, merge_repos.g_start_timestamp)
                returncode == IF merge_branch \in DOMAIN merge_repos.repo.refs THEN 0 ELSE 1
                probed == MrLog(merge_repos, MrLogged(GitCommand("show-ref", merge_branch), returncode))
                logged == IF returncode = 0 THEN probed ELSE MrLog(probed, NotPresentNote)
            IN  merge_repos' = [logged EXCEPT
                    !.pc = "run_commands_merge",
                    !.merge_branch = merge_branch,
                    !.commands = SetupCommands(returncode, merge_branch)
                                 \o << GitCommand("merge", merge_repos.source_branch) >>]
       ELSE merge_repos' = [merge_repos EXCEPT
                    !.pc = "run_commands_merge",
                    !.commands = << GitCommand("merge", merge_repos.source_branch) >>]
    /\ UNCHANGED <<MrFrame, run>>

\* The program is started again with the same command line, at a later
\* time, on the repository as the run before left it.
MrAgain ==
    /\ merge_repos.pc = "returned"
    /\ run < MaxRuns
    /\ run' = run + 1
    /\ \E g_start_timestamp \in Timestamps :
         merge_repos' = [merge_repos EXCEPT !.pc = "start", !.e = EmptyStr,
                            !.merge_branch = EmptyStr,
                            !.g_start_timestamp = g_start_timestamp,
                            !.logfiles = Append(@, << >>)]
    /\ UNCHANGED MrFrame

NextRecreate ==
    \/ MrBegin
    \/ MrRunCommand
    \/ MrProbe
    \/ MrAgain

SpecRecreate == InitRecreate /\ [][NextRecreate]_vars

(***************************************************************************)
(* Vocabulary of the properties.                                           *)
(***************************************************************************)
\* dict.get(key, '')
Get(d, key) == IF HasKey(d, key) THEN d[key] ELSE EmptyStr

\* The fields of a spec string, read off the positions of its colons.
ColonPositions(s) == {p \in 1..Len(s) : s[p] = ":"}
NumFields(s) == Cardinality(ColonPositions(s)) + 1
NthColon(s, k) ==
    CHOOSE p \in ColonPositions(s) : Cardinality({q \in ColonPositions(s) : q <= p}) = k
NthField(s, k) ==
    IF k > NumFields(s) THEN EmptyStr
    ELSE SubSeq(s, IF k = 1 THEN 1 ELSE NthColon(s, k - 1) + 1,
                   IF k = NumFields(s) THEN Len(s) ELSE NthColon(s, k) - 1)

\* make_repos_metadata has returned the descriptors.
Built == main_pc # "make_repos_metadata" /\ main_exc # "ValueError"

\* validate_repos_metadata has been called and main() has acted on its outcome.
Validated == Built /\ main_pc # "validate"

\* The pool has been created: tasks exist.
PoolStarted == main_pc \in {"join", "report"} \/ (main_pc = "exited" /\ \E i \in Tasks : tasks[i].pc # "new")

IsNotUniqueMsg(m) == m.msg = NotUniqueMsg(<< >>).msg

\* Two descriptors at different positions carry the same local name.
HasDuplicateName(repos_md) ==
    \E i, j \in 1..Len(repos_md) :
        /\ i < j
        /\ Get(repos_md[i], "repo_local_name") # EmptyStr
        /\ Get(repos_md[i], "repo_local_name") = Get(repos_md[j], "repo_local_name")

\* The messages the validation pass owes one descriptor, in order.
OwedMessages(repo_metadata) ==
    LET raw == Get(repo_metadata, "repo_data_from_parameter")
    IN  (IF Get(repo_metadata, "repo_local_name") = EmptyStr
         THEN <<MissingNameMsg(raw)>> ELSE << >>)
        \o (IF Get(repo_metadata, "source_ref") = EmptyStr
            THEN <<MissingSourceRefMsg(raw)>> ELSE << >>)
        \o (IF Get(repo_metadata, "dest_branch") = EmptyStr
            THEN <<MissingDestBranchMsg(raw)>> ELSE << >>)

RECURSIVE AllOwedMessages(_)
AllOwedMessages(repos_md) ==
    IF Len(repos_md) = 0 THEN << >>
    ELSE OwedMessages(Head(repos_md)) \o AllOwedMessages(Tail(repos_md))

NotANotUniqueMsg(m) == ~IsNotUniqueMsg(m)

(***************************************************************************)
(* Properties of the builder and of the validation pass (SpecBuild).       *)
(***************************************************************************)

\* C7: once validation has run on the list the builder produced, the error
\* list it returned holds, per descriptor and in order, one message for a
\* missing local name, one for a missing source_ref and one for a missing
\* dest_branch, plus the not-unique message when two descriptors share a
\* name; the list is empty exactly when there is no violation.
C7_AllViolationsCollected ==
    Validated =>
        /\ main_exc = "none"
        /\ SelectSeq(errors, NotANotUniqueMsg) = AllOwedMessages(repos_metadata)
        /\ HasDuplicateName(repos_metadata) => \E k \in 1..Len(errors) : IsNotUniqueMsg(errors[k])
        /\ errors = << >> <=>
              (AllOwedMessages(repos_metadata) = << >> /\ ~HasDuplicateName(repos_metadata))

\* C8: once validation has run, a list in which two descriptors carry the
\* same local name, at whatever positions, has the not-unique message in its
\* error list; and when validation let the run proceed, all local names are
\* non-empty and pairwise distinct.
C8_DuplicateAlwaysFlagged ==
    Validated =>
        /\ HasDuplicateName(repos_metadata) => \E k \in 1..Len(errors) : IsNotUniqueMsg(errors[k])
        /\ main_pc = "submit" =>
              /\ \A i \in 1..Len(repos_metadata) : Get(repos_metadata[i], "repo_local_name") # EmptyStr
              /\ ~HasDuplicateName(repos_metadata)

\* A spec that is a non-empty local name followed by zero to three colons.
IsNameWithColons(s) ==
    /\ NumFields(s) <= 4
    /\ Strip(NthField(s, 1)) # EmptyStr
    /\ \A k \in 2..NumFields(s) : NthField(s, k) = EmptyStr

\* The descriptor without the retained raw spec string.
WithoutRaw(d) == [k \in DOMAIN d \ {"repo_data_from_parameter"} |-> d[k]]

\* What a spec made of a name alone resolves to, given the two defaults.
NameOnlyDescriptor(name, source_ref, dest_branch) ==
    [k \in {"repo_local_name", "source_ref", "dest_branch"} |->
        CASE k = "repo_local_name" -> Strip(name)
          [] k = "source_ref" -> source_ref
          [] k = "dest_branch" -> dest_branch]

\* C9 as stated: the descriptors built from 'n', 'n:', 'n::' and 'n:::' are
\* the same in every key but the raw spec string, with source_ref and
\* dest_branch equal to the defaults as supplied.
C9_TrailingFieldsSuppliedDefaults ==
    Built =>
        \A i \in 1..Len(repos_data) :
            IsNameWithColons(repos_data[i]) =>
                WithoutRaw(repos_metadata[i]) =
                    NameOnlyDescriptor(NthField(repos_data[i], 1),
                                       default_source_ref, default_dest_branch)

\* C9, amended: the descriptors built from 'n', 'n:', 'n::' and 'n:::' are
\* the same in every key but the raw spec string, which each keeps, with
\* source_ref and dest_branch equal to the whitespace-trimmed defaults.
C9_TrailingFieldsTrimmedDefaults ==
    Built =>
        \A i \in 1..Len(repos_data) :
            IsNameWithColons(repos_data[i]) =>
                /\ WithoutRaw(repos_metadata[i]) =
                       NameOnlyDescriptor(NthField(repos_data[i], 1),
                                          Strip(default_source_ref), Strip(default_dest_branch))
                /\ repos_metadata[i]["repo_data_from_parameter"] = repos_data[i]

\* C9 witness: 'a:::' has been built with both defaults given.
C9_Witness ==
    /\ Built
    /\ repos_data = << <<"a", ":", ":", ":">> >>
    /\ repos_metadata[1]["source_ref"] = <<"m">>
    /\ repos_metadata[1]["dest_branch"] = <<"m">>

\* The field the descriptor holds for a spec field and its default.
Resolved(field, default) == IF Strip(field) # EmptyStr THEN Strip(field) ELSE default

\* C10 as stated: per spec of 1 to 4 fields, source_ref is the trimmed second
\* field if non-empty and the default source ref as given otherwise,
\* dest_branch the trimmed third field if non-empty and the default dest
\* branch as given otherwise; one descriptor per spec, in input order, each
\* keeping its spec string.
C10_PerFieldSuppliedDefaults ==
    Built =>
        /\ Len(repos_metadata) = Len(repos_data)
        /\ \A i \in 1..Len(repos_data) :
              /\ NumFields(repos_data[i]) \in 1..4
              /\ repos_metadata[i]["repo_data_from_parameter"] = repos_data[i]
              /\ repos_metadata[i]["source_ref"] =
                     Resolved(NthField(repos_data[i], 2), default_source_ref)
              /\ repos_metadata[i]["dest_branch"] =
                     Resolved(NthField(repos_data[i], 3), default_dest_branch)

\* C10, amended: as stated, with the whitespace-trimmed defaults in place of
\* the defaults as given.
C10_PerFieldTrimmedDefaults ==
    Built =>
        /\ Len(repos_metadata) = Len(repos_data)
        /\ \A i \in 1..Len(repos_data) :
              /\ NumFields(repos_data[i]) \in 1..4
              /\ repos_metadata[i]["repo_data_from_parameter"] = repos_data[i]
              /\ repos_metadata[i]["source_ref"] =
                     Resolved(NthField(repos_data[i], 2), Strip(default_source_ref))
              /\ repos_metadata[i]["dest_branch"] =
                     Resolved(NthField(repos_data[i], 3), Strip(default_dest_branch))

\* C10 witness: 'a:: b ' has been built: the source_ref is the default, the
\* dest_branch the trimmed third field.
C10_Witness ==
    /\ Built
    /\ repos_data = << <<"a", ":", ":", " ", "b", " ">> >>
    /\ default_source_ref = <<" ", "m">>
    /\ repos_metadata[1]["source_ref"] = <<"m">>
    /\ repos_metadata[1]["dest_branch"] = <<"b">>

\* Some spec of the command line has more than four fields.
BadFieldCount == \E i \in 1..Len(repos_data) : NumFields(repos_data[i]) > 4

\* The first spec of the command line with more than four fields.
FirstBadSpec ==
    repos_data[CHOOSE i \in 1..Len(repos_data) :
                  /\ NumFields(repos_data[i]) > 4
                  /\ \A j \in 1..(i - 1) : NumFields(repos_data[j]) <= 4]

HasEmptyName == \E i \in 1..Len(repos_data) : Strip(NthField(repos_data[i], 1)) = EmptyStr

LogOf(i) == IF LogfileName(i) \in DOMAIN logs THEN logs[LogfileName(i)] ELSE << >>

\* The log of task i holds the command line of a command that contains word.
Ran(i, word) ==
    \E k \in 1..Len(LogOf(i)) :
        LET t == LogOf(i)[k].text
        IN  /\ Len(t) >= 1
            /\ t[1] = "$ "
            /\ \E j \in 2..Len(t) : t[j] = word

MergeRan(i) == Ran(i, " merge --no-edit ")
PostScriptRan(i) == Ran(i, "post.sh")
PreScriptRan(i) == Ran(i, "pre.sh")

Started(i) == tasks[i].pc \notin {"new", "queued"}

\* The descriptor of task i shows the task as failed.
MarkedFailed(i) ==
    \/ tasks[i].exc
    \/ /\ HasKey(repos_metadata[i], "task_finish_status")
       /\ repos_metadata[i]["task_finish_status"] = "with FAILURE"
    \/ /\ HasKey(repos_metadata[i], "task_error_details")
       /\ repos_metadata[i]["task_error_details"] # EmptyStr

\* The pool has been joined.
Joined == main_pc = "report" \/ (main_pc = "exited" /\ PoolStarted)

\* C1: after validation every task is started and runs to its end whatever
\* happens to the other tasks: a task that has not ended can always take its
\* next step, main() leaves the pool only when every task has ended, and
\* when the failures of the run are failures of the steps inside the task
\* boundary (pre-script, missing repository, git command, merge,
\* post-script) the report has one row per descriptor, in order, showing
\* that task's own outcome.
C1_TasksIndependent ==
    /\ \A i \in Tasks : (tasks[i].pc \notin {"new", "done", "raised"}) => ENABLED TaskNext(i)
    /\ Joined => \A i \in Tasks : Terminated(i)
    /\ (main_pc = "exited" /\ PoolStarted /\ \A i \in Tasks : tasks[i].pc = "done") =>
          /\ report_written
          /\ Len(report) = Len(repos_data)
          /\ \A i \in Tasks :
                /\ report[i].repo_local_name = RepoLocalName(i)
                /\ report[i].task_finish_status = "with FAILURE" <=> tasks[i].exc
                /\ report[i].task_error_details = tasks[i].e

\* C1 witness: a run of two tasks has ended, the first task failed at a git
\* command, the second succeeded, and both are in the report.
C1_Witness ==
    /\ main_pc = "exited"
    /\ report_written
    /\ Len(report) = 2
    /\ tasks[1].exc /\ Ran(1, " reset --hard") /\ ~MergeRan(1)
    /\ ~tasks[2].exc /\ MergeRan(2)
    /\ report[1].task_finish_status = "with FAILURE"
    /\ report[2].task_finish_status = "successfully"

TaskSucceeded(i) == tasks[i].pc = "done" /\ ~tasks[i].exc

\* C2: when the process has exited, the exit code is 0 if and only if the
\* tasks were run and every one of them finished successfully, and 1
\* otherwise; in particular it is 1 when the run ended at validation.
C2_ExitCode ==
    main_pc = "exited" =>
        /\ exit_code \in {0, 1}
        /\ exit_code = 0 <=> (PoolStarted /\ \A i \in Tasks : TaskSucceeded(i))
        /\ ~PoolStarted => exit_code = 1

\* C2 witness: a run of two tasks has exited with 1, the first task having
\* succeeded and the second failed.
C2_Witness ==
    /\ main_pc = "exited"
    /\ Len(repos_data) = 2
    /\ TaskSucceeded(1)
    /\ tasks[2].pc = "done" /\ tasks[2].exc
    /\ exit_code = 1

\* C3: with a post-script configured, once the merge command of a task has
\* run, whatever its exit code, either the post-script has run or the task
\* is about to run it and is not marked failed.
C3_PostScriptBeforeFailure ==
    \A i \in Tasks :
        (Started(i) /\ HasPostScript /\ MergeRan(i)) =>
            \/ PostScriptRan(i)
            \/ tasks[i].pc = "post_script" /\ ~MarkedFailed(i)

\* C3 witness: a task whose merge exited non-zero has run the post-script
\* and is finished as failed.
C3_Witness ==
    \E i \in Tasks :
        /\ tasks[i].pc = "done"
        /\ HasPostScript
        /\ tasks[i].r_merge = 1
        /\ PostScriptRan(i)
        /\ repos_metadata[i]["task_finish_status"] = "with FAILURE"

FinalKeys == {"task_end", "task_duration", "task_finish_status"}

\* C4: a task that has ended, wherever its failure came from, has recorded
\* task_end, task_duration and the finish status in its descriptor and has
\* appended that final descriptor as the last entry of its log.
C4_FinalizeAlwaysRuns ==
    \A i \in Tasks :
        Terminated(i) =>
            /\ FinalKeys \subseteq DOMAIN repos_metadata[i]
            /\ Len(LogOf(i)) > 0
            /\ LogOf(i)[Len(LogOf(i))] =
                   Snapshot(<<"repo_metadata at task-end:">>, repos_metadata[i])

\* C5: no error leaves a task: a task never ends by raising, a finished task
\* that met an error carries the failure status and a non-empty detail, and
\* main(), once the pool ran, exits with the report written and without an
\* unhandled exception.
C5_ErrorsConfined ==
    /\ \A i \in Tasks : tasks[i].pc # "raised"
    /\ \A i \in Tasks :
          (tasks[i].pc = "done" /\ tasks[i].exc) =>
              /\ repos_metadata[i]["task_finish_status"] = "with FAILURE"
              /\ repos_metadata[i]["task_error_details"] # EmptyStr
    /\ (main_pc = "exited" /\ PoolStarted) => main_exc = "none" /\ report_written

\* The specs given on the command line break a rule of the configuration.
MissingSomething ==
    \E i \in 1..Len(repos_data) :
        \/ Strip(NthField(repos_data[i], 1)) = EmptyStr
        \/ Resolved(NthField(repos_data[i], 2), Strip(default_source_ref)) = EmptyStr
        \/ Resolved(NthField(repos_data[i], 3), Strip(default_dest_branch)) = EmptyStr

DuplicateGiven ==
    \E i, j \in 1..Len(repos_data) :
        /\ i < j
        /\ Strip(NthField(repos_data[i], 1)) # EmptyStr
        /\ Strip(NthField(repos_data[i], 1)) = Strip(NthField(repos_data[j], 1))

HasViolation == BadFieldCount \/ MissingSomething \/ DuplicateGiven

\* C6: when the specs break a rule of the configuration, no task is ever
\* started, no log and no report is written, the process exits with 1, and
\* unless a spec has too many fields (the builder then raises an error
\* naming it) the violations are reported as one list holding all of them.
C6_ConfigErrorsAbort ==
    HasViolation =>
        /\ \A i \in Tasks : tasks[i].pc = "new"
        /\ DOMAIN logs = {}
        /\ ~report_written
        /\ main_pc = "exited" =>
              /\ exit_code = 1
              /\ BadFieldCount => main_exc = "ValueError"
              /\ ~BadFieldCount =>
                    /\ main_exc = "none"
                    /\ SelectSeq(errors, NotANotUniqueMsg) = AllOwedMessages(repos_metadata)
                    /\ DuplicateGiven => \E k \in 1..Len(errors) : IsNotUniqueMsg(errors[k])


\* sub in s
Contains(s, sub) ==
    \E k \in 0..(Len(s) - Len(sub)) : SubSeq(s, k + 1, k + Len(sub)) = sub

\* Some git command of the task sequence has been run for task i.
GitRan(i) ==
    \/ Ran(i, " reset --hard")
    \/ Ran(i, " clean -fd")
    \/ Ran(i, " checkout ")
    \/ Ran(i, " show-ref --verify --quiet refs/heads/")
    \/ MergeRan(i)

\* The outcome of task j as its descriptor shows it is the task's own.
OwnOutcome(j) ==
    tasks[j].pc = "done" =>
        /\ repos_metadata[j]["task_finish_status"] = "with FAILURE" <=> tasks[j].exc
        /\ repos_metadata[j]["task_error_details"] = tasks[j].e

\* C12: a task whose repository check found no .git directory is failed
\* with the repository-missing error, that names the repository, no git
\* command has been run for it, and once it is finished its descriptor
\* carries the failure; the step that detects the missing repository leaves
\* every other task, its descriptor and its log as they are, and every
\* finished task shows its own outcome.
C12_MissingRepoFailsAlone ==
    /\ [](\A i \in Tasks :
            /\ OwnOutcome(i)
            /\ tasks[i].is_dir = "absent" =>
                  /\ tasks[i].pc \in {"finalize", "done"}
                  /\ tasks[i].exc
                  /\ tasks[i].e = RepoMissingMsg(i)
                  /\ Contains(tasks[i].e, RepoLocalName(i))
                  /\ ~GitRan(i))
    /\ [][\A i \in Tasks :
            (tasks[i].pc = "repo_check" /\ tasks'[i].is_dir = "absent") =>
                \A j \in Tasks \ {i} :
                    /\ tasks'[j] = tasks[j]
                    /\ repos_metadata'[j] = repos_metadata[j]
                    /\ LogOf(j)' = LogOf(j)]_vars

\* C12 witness: of two tasks the first found its repository missing and is
\* finished as failed, the second has merged and finished successfully, and
\* the process has exited with 1.
C12_Witness ==
    /\ main_pc = "exited"
    /\ exit_code = 1
    /\ report_written
    /\ Len(repos_data) = 2
    /\ tasks[1].is_dir = "absent" /\ tasks[1].pc = "done" /\ ~GitRan(1)
    /\ report[1].task_finish_status = "with FAILURE"
    /\ tasks[2].is_dir = "present" /\ MergeRan(2)
    /\ report[2].task_finish_status = "successfully"


\* The log of task i shows that the command exited with a non-zero status.
ExitedNonZero(i, command) ==
    \E k \in 1..(Len(LogOf(i)) - 1) :
        /\ LogOf(i)[k].text = <<"$ ">> \o command
        /\ LogOf(i)[k + 1].text[1] = "Returncode: "
        /\ LogOf(i)[k + 1].text[2] # "0"

PreScriptFailed(i) == HasPreScript /\ ExitedNonZero(i, cl_args.pre_script)

\* C13: a task whose pre-script exited non-zero is failed: the exception is
\* pending or recorded, the repository check has not been made, no git
\* command (reset, clean, checkout, merge-branch probe and checkout, merge)
\* and no post-script has been run for it, and once it is finished its
\* descriptor carries the failure status and a non-empty detail.
C13_PreScriptFailureAborts ==
    \A i \in Tasks :
        (Started(i) /\ PreScriptFailed(i)) =>
            /\ tasks[i].pc \in {"finalize", "done"}
            /\ tasks[i].exc
            /\ tasks[i].is_dir = "unchecked"
            /\ ~GitRan(i)
            /\ ~PostScriptRan(i)
            /\ tasks[i].pc = "done" =>
                  /\ repos_metadata[i]["task_finish_status"] = "with FAILURE"
                  /\ repos_metadata[i]["task_error_details"] # EmptyStr

\* C13 witness: with a pre-script, a post-script and a template configured,
\* a task whose pre-script exited non-zero is finished as failed.
C13_Witness ==
    \E i \in Tasks :
        /\ tasks[i].pc = "done"
        /\ HasPostScript /\ HasTemplate
        /\ PreScriptFailed(i)
        /\ repos_metadata[i]["task_finish_status"] = "with FAILURE"


(***************************************************************************)
(* Properties of the merge-branch handling (SpecGit).                      *)
(***************************************************************************)
MergeBranch(i) == repos_metadata[i]["merge_branch"]
DestBranch(i) == repos_metadata[i]["dest_branch"]

\* The log of task i holds the line.
Logged(i, text) == \E k \in 1..Len(LogOf(i)) : LogOf(i)[k].text = text

C15_ReportRowsInInputOrder ==
    report_written =>
        /\ Len(report) = Len(repos_data)
        /\ \A i \in Tasks :
              /\ report[i].repo_local_name = Strip(NthField(repos_data[i], 1))
              /\ report[i].branches =
                     <<"SR: ">> \o Resolved(NthField(repos_data[i], 2), Strip(default_source_ref))
                     \o <<"<br>DB: ">>
                     \o Resolved(NthField(repos_data[i], 3), Strip(default_dest_branch))
              /\ report[i].task_duration =
                     repos_metadata[i]["task_end"] - repos_metadata[i]["task_start"]
              /\ report[i].task_finish_status =
                     (IF tasks[i].exc THEN "with FAILURE" ELSE "successfully")
              /\ report[i].task_error_details = tasks[i].e

\* C15 witness: of the specs 'a' and 'b:s:d:r' the task of 'b' has finished
\* before the task of 'a' started, and the report shows 'a' first.
C15_Witness ==
    /\ report_written
    /\ repos_data = << <<"a">>, <<"b", ":", "s", ":", "d", ":", "r">> >>
    /\ repos_metadata[2]["task_end"] < repos_metadata[1]["task_start"]
    /\ report[1].repo_local_name = <<"a">>
    /\ report[2].repo_local_name = <<"b">>

\* The cell of the report for a field of a descriptor, as the claim has it.
PlaceholderCell == <<"&nbsp;">>
CellOrPlaceholder(repo_metadata, key) ==
    IF HasKey(repo_metadata, key) THEN repo_metadata[key] ELSE PlaceholderCell

\* C16: once the pool has been left main() ends with the report written and
\* without an unhandled exception, whatever fields the descriptors lack; in
\* the row of a descriptor the cell of a missing finish detail is the
\* placeholder and the cell of a finish detail that is present and empty is
\* empty.
C16_ReportNeverCrashes ==
    (main_pc = "exited" /\ PoolStarted) =>
        /\ main_exc = "none"
        /\ report_written
        /\ Len(report) = Len(repos_metadata)
        /\ \A i \in 1..Len(repos_metadata) :
              report[i].task_error_details =
                  CellOrPlaceholder(repos_metadata[i], "task_error_details")


(***************************************************************************)
(* Properties of the environment of the scripts (Spec).                    *)
(***************************************************************************)
ScriptEnvs == {"pre_script_env", "post_script_env"}

\* The script has been started for task i: an environment was passed to it.
ScriptStarted(i, script_env) == tasks[i][script_env] # EmptyDict

EnvVarNames(keys) == {EnvVarName(key) : key \in keys}

\* The variables of the host process that no variable of the task hides.
HostKept(env, i) ==
    \A v \in DOMAIN HostEnv \ EnvVarNames(DOMAIN repos_metadata[i]) : env[v] = HostEnv[v]

\* The fields the claim lists for every descriptor.
ClaimedKeys ==
    {"repo_local_name", "source_ref", "dest_branch", "prj_and_repo_remote_name",
     "repo_data_from_parameter", "task_start", "repo_dir", "repos_dir", "logs_dir"}
    \cup (IF HasTemplate THEN {"merge_branch"} ELSE {})

ExposedKeys(i) ==
    {"repo_local_name", "source_ref", "dest_branch", "repo_data_from_parameter",
     "task_start", "repo_dir", "repos_dir", "logs_dir", "task_error_details"}
    \cup (IF HasTemplate THEN {"merge_branch"} ELSE {})
    \cup (IF Strip(NthField(repos_data[i], 4)) # EmptyStr
          THEN {"prj_and_repo_remote_name"} ELSE {})

Returned == merge_repos.pc = "returned"

\* The position of the first ')' of s at or after position p, 0 if none.
NextParen(s, p) ==
    IF \E q \in p..Len(s) : s[q] = ")"
    THEN CHOOSE q \in p..Len(s) : s[q] = ")" /\ \A r \in p..(q - 1) : s[r] # ")"
    ELSE 0

\* A pattern read from the left, placeholder by placeholder: %SBR, %DBR, and
\* %DATE(format) with the format that its parentheses enclose; a %DATE()
\* without format, and any other text, character by character.
RECURSIVE PlaceholdersReplaced(_, _, _, _)
PlaceholdersReplaced(pattern, source_branch, dest_branch, timestamp) ==
    LET rest(n) == PlaceholdersReplaced(SubSeq(pattern, n, Len(pattern)), source_branch,
                                        dest_branch, timestamp)
        close == NextParen(pattern, Len(DATE) + 1)
    IN  IF pattern = EmptyStr THEN EmptyStr
        ELSE IF OccursAt(pattern, SBR, 1) THEN source_branch \o rest(Len(SBR) + 1)
        ELSE IF OccursAt(pattern, DBR, 1) THEN dest_branch \o rest(Len(DBR) + 1)
        ELSE IF OccursAt(pattern, DATE, 1) /\ close > Len(DATE) + 1
             THEN Strftime(SubSeq(pattern, Len(DATE) + 1, close - 1), timestamp)
                      \o rest(close + 1)
        ELSE <<Head(pattern)>> \o rest(2)

\* C18: in the merge_repos variant the rendered pattern has every %SBR
\* replaced by the source branch, every %DBR by the destination branch and
\* %DATE(format) by the start of the run in that strftime format, and all
\* other text as it was; without %DATE only the branches are substituted.
C18_PlaceholdersReplacedRestUnchanged ==
    Returned =>
        merge_repos.merge_branch =
            PlaceholdersReplaced(merge_repos.merge_branch_pattern, merge_repos.source_branch,
                                 merge_repos.dest_branch, merge_repos.g_start_timestamp)

\* How often sub occurs in s.
Occurrences(s, sub) == Cardinality({p \in 1..Len(s) : OccursAt(s, sub, p)})

EmptyDate == <<"%", "D", "A", "T", "E", "(", ")">>

\* C19: in the merge_repos variant a %DATE() without format is not fatal
\* and is copied to the output as it is, while %SBR and %DBR of the same
\* pattern are replaced.
C19_EmptyDateLeftVerbatim ==
    (Returned /\ Contains(merge_repos.merge_branch_pattern, EmptyDate)) =>
        /\ Occurrences(merge_repos.merge_branch, EmptyDate)
              = Occurrences(merge_repos.merge_branch_pattern, EmptyDate)
        /\ ~Contains(merge_repos.merge_branch, SBR)
        /\ ~Contains(merge_repos.merge_branch, DBR)

(***************************************************************************)
(* Properties of the renderings (SpecRender).                              *)
(***************************************************************************)
Variants == {"concurrent_git_merge", "merge_repos"}

SameCall(r1, r2) == r1.template = r2.template /\ r1.descriptor = r2.descriptor

SameResult(r1, r2) == r1.exc = r2.exc /\ r1.merge_branch = r2.merge_branch

\* Any two calls with the same template and the same descriptor returned the
\* same.
Deterministic ==
    \A v \in Variants : \A r1, r2 \in renderings[v] : SameCall(r1, r2) => SameResult(r1, r2)

\* A rendering leaves the descriptors and everything shared as they are:
\* the command line, the descriptors, the tasks, the repositories, the log
\* files, the report, and the start timestamp of merge_repos.py.
RenderingChangesNothing ==
    renderings' # renderings =>
        /\ UNCHANGED <<inputs, repos_metadata, tasks, git, logs, report, report_written, errors,
                       main_pc, exit_code, clock>>
        /\ merge_repos'.g_start_timestamp = merge_repos.g_start_timestamp
        /\ \A v \in Variants : renderings[v] \subseteq renderings'[v]

\* The template has an expression that reads something else than the
\* descriptor.
ReadsBeyondDescriptor ==
    \E k \in 1..Len(cl_args.merge_branch_template) :
        cl_args.merge_branch_template[k].kind = "now"

Running(i) == Started(i) /\ ~Terminated(i)

\* The step is one of the task of descriptor i.
StepOf(i) == tasks'[i] # tasks[i]

\* The step writes descriptor i.
Writes(i) ==
    /\ Len(repos_metadata') = Len(repos_metadata)
    /\ i \in 1..Len(repos_metadata)
    /\ repos_metadata'[i] # repos_metadata[i]

\* A descriptor is written only by a step of its own task, that is running
\* or starts with this step, and that step touches no other descriptor and
\* no other task; a task that has ended runs no more.
OwnedByItsTask ==
    \A i \in Tasks :
        /\ Writes(i) =>
              /\ tasks[i].pc \notin {"new", "done", "raised"}
              /\ StepOf(i)
              /\ \A j \in Tasks \ {i} : ~Writes(j) /\ ~StepOf(j)
        /\ Terminated(i) => ~StepOf(i) /\ ~Writes(i)
        /\ Started(i) => tasks'[i].pc # "queued"

\* The pool has one task per descriptor.
OneTaskPerDescriptor ==
    PoolStarted => DOMAIN tasks = 1..Len(repos_metadata)

\* main() reads the descriptors for the report.
OrchestratorReads == main_pc = "report" \/ report_written

\* C21: each descriptor is processed by exactly one task, once per run, and
\* belongs to that task alone: no step of a task writes another descriptor,
\* and main() reads the descriptors only when the tasks owning them have
\* ended.
C21_DescriptorOwnedByOneTask ==
    /\ [](OneTaskPerDescriptor /\ (OrchestratorReads => \A i \in Tasks : Terminated(i)))
    /\ [][OwnedByItsTask]_vars

\* C21 witness: two tasks are running at the same time, one has run its
\* pre-script and the other has not, and each has written its own
\* descriptor.
C21_Witness ==
    \E i, j \in Tasks :
        /\ i # j
        /\ Running(i) /\ Running(j)
        /\ tasks[i].pc = "repo_check"
        /\ tasks[j].pc = "pre_script"
        /\ repos_metadata[i]["task_start"] = tasks[i].task_start_timestamp
        /\ repos_metadata[j]["task_start"] = tasks[j].task_start_timestamp
        /\ repos_metadata[i]["task_start"] # repos_metadata[j]["task_start"]

\* old is the beginning of new.
IsPrefix(old, new) == Len(old) <= Len(new) /\ SubSeq(new, 1, Len(old)) = old

\* What a log file holds, nothing when it does not exist.
Content(lg, f) == IF f \in DOMAIN lg THEN lg[f] ELSE << >>

\* The step writes the log file f.
WritesLog(f) == Content(logs', f) # Content(logs, f)

\* No log file disappears or loses or changes a line; what a step adds to a
\* log file goes to the file of the one task that takes the step; and the
\* state of a repository changes by a step of its task only.
LogsAndReposOwned ==
    /\ \A f \in DOMAIN logs : f \in DOMAIN logs' /\ IsPrefix(logs[f], logs'[f])
    /\ \A f \in DOMAIN logs' :
          WritesLog(f) =>
              /\ \E i \in Tasks : StepOf(i) /\ f = LogfileName(i)
              /\ \A i, j \in Tasks : (StepOf(i) /\ StepOf(j)) => i = j
    /\ \A i \in Tasks : git'[i] # git[i] => StepOf(i)

\* The tasks of the pool have pairwise distinct log files and directories.
PairwiseDistinct ==
    PoolStarted =>
        \A i, j \in Tasks :
            i # j => LogfileName(i) # LogfileName(j) /\ RepoDir(i) # RepoDir(j)

\* C22: no two tasks of a run write the same per-repo log file or work in
\* the same repository directory: both are derived from repo_local_name,
\* that validation has found unique; and a log file is only appended to.
C22_LogsAndReposNotShared ==
    /\ []PairwiseDistinct
    /\ [][LogsAndReposOwned]_vars

\* C22 witness: two tasks are running, each has already run commands that
\* its own log file holds.
C22_Witness ==
    \E i, j \in Tasks :
        /\ i # j
        /\ Running(i) /\ Running(j)
        /\ GitRan(i) /\ GitRan(j)
        /\ Len(LogOf(i)) > 3
        /\ Len(LogOf(j)) > 3
        /\ LogOf(i) # LogOf(j)

\* Line k of the log of task i is the command line of a command, and line
\* k + 1 its record.
IsCommandAt(i, k) ==
    LET lg == LogOf(i)
    IN  /\ k \in 1..(Len(lg) - 1)
        /\ Len(lg[k].text) > 1
        /\ lg[k].text[1] = "$ "
        /\ lg[k + 1].text[1] = "Returncode: "

CommandAt(i, k) == Tail(LogOf(i)[k].text)

\* The exit code in the record of the command of line k.
ExitCodeAt(i, k) == LogOf(i)[k + 1].text[2]

\* The merge-branch probe and the merge.
IsProbeOrMerge(command) ==
    \E n \in 1..Len(command) :
        command[n] \in {" show-ref --verify --quiet refs/heads/", " merge --no-edit "}

\* Task i has the command-failed error of this command and exit code.
RaisedFor(i, command, code) ==
    /\ tasks[i].exc
    /\ Contains(tasks[i].e,
                <<": The following command exited with exit-code ", code, ": ">> \o command)

IsFinishLine(entry) == Len(entry.text) >= 1 /\ entry.text[1] = "Merge-task for "

\* C23: a command of a task has raised the command-failed error, which
\* carries the command and the exit code, exactly when it exited non-zero
\* and is neither the merge-branch probe nor the merge; these two return
\* whatever the exit code is.  After a command that raised the task ran
\* nothing more.
C23_OnlyProbeAndMergeUnhonored ==
    \A i \in Tasks :
        Started(i) =>
            \A k \in 1..Len(LogOf(i)) :
                IsCommandAt(i, k) =>
                    /\ RaisedFor(i, CommandAt(i, k), ExitCodeAt(i, k))
                          <=> (ExitCodeAt(i, k) # "0" /\ ~IsProbeOrMerge(CommandAt(i, k)))
                    /\ RaisedFor(i, CommandAt(i, k), ExitCodeAt(i, k)) =>
                          \/ k + 1 = Len(LogOf(i))
                          \/ IsFinishLine(LogOf(i)[k + 2])

\* C23 witness: in one task the probe and the merge have exited non-zero
\* and the post-script, that ran after them, has raised.
C23_Witness ==
    \E i \in Tasks :
        /\ tasks[i].pc = "done"
        /\ \E k1, k2, k3 \in 1..Len(LogOf(i)) :
             /\ k1 < k2 /\ k2 < k3
             /\ IsCommandAt(i, k1) /\ IsCommandAt(i, k2) /\ IsCommandAt(i, k3)
             /\ ExitCodeAt(i, k1) # "0" /\ ExitCodeAt(i, k2) # "0" /\ ExitCodeAt(i, k3) # "0"
             /\ IsProbeOrMerge(CommandAt(i, k1))
             /\ IsProbeOrMerge(CommandAt(i, k2))
             /\ CommandAt(i, k3) = cl_args.post_script
             /\ RaisedFor(i, cl_args.post_script, "1")

\* The place of a step in execute_merge.
StepRank(pc) ==
    CASE pc = "new" -> 0
      [] pc = "queued" -> 1
      [] pc = "pre_script" -> 2
      [] pc = "repo_check" -> 3
      [] pc = "reset" -> 4
      [] pc = "clean" -> 5
      [] pc = "checkout" -> 6
      [] pc = "show_ref" -> 7
      [] pc = "checkout_merge_branch" -> 8
      [] pc = "merge" -> 9
      [] pc = "post_script" -> 10
      [] pc = "finalize" -> 11
      [] pc = "done" -> 12
      [] pc = "raised" -> 12

\* The step that follows pc when nothing fails, given what is configured.
StepAfter(pc) ==
    CASE pc = "queued" -> IF HasPreScript THEN "pre_script" ELSE "repo_check"
      [] pc = "pre_script" -> "repo_check"
      [] pc = "repo_check" -> "reset"
      [] pc = "reset" -> "clean"
      [] pc = "clean" -> "checkout"
      [] pc = "checkout" -> IF HasTemplate THEN "show_ref" ELSE "merge"
      [] pc = "show_ref" -> "checkout_merge_branch"
      [] pc = "checkout_merge_branch" -> "merge"
      [] pc = "merge" -> IF HasPostScript THEN "post_script" ELSE "finalize"
      [] pc = "post_script" -> "finalize"
      [] pc = "finalize" -> "done"
      [] OTHER -> "none"

\* The command holds the word.
HasToken(command, word) == \E n \in 1..Len(command) : command[n] = word

\* The step of execute_merge that runs the command.
CommandRank(i, command) ==
    CASE HasPreScript /\ command = cl_args.pre_script -> 2
      [] HasToken(command, " reset --hard") -> 4
      [] HasToken(command, " clean -fd") -> 5
      [] command = GitC(i) \o <<" checkout ">> \o DestBranch(i) -> 6
      [] HasToken(command, " show-ref --verify --quiet refs/heads/") -> 7
      [] HasToken(command, " checkout ") -> 8
      [] HasToken(command, " merge --no-edit ") -> 9
      [] HasPostScript /\ command = cl_args.post_script -> 10
      [] OTHER -> 0

\* A step of a task leads forward, and to the very next step unless the
\* task fails.
StepsForward ==
    \A i \in Tasks :
        (StepOf(i) /\ tasks[i].pc # "new") =>
            /\ StepRank(tasks'[i].pc) > StepRank(tasks[i].pc)
            /\ (~tasks'[i].exc /\ tasks'[i].pc # "raised") => tasks'[i].pc = StepAfter(tasks[i].pc)

\* What a step of task i adds to the log of the task.
Appended(i) ==
    SubSeq(Content(logs', LogfileName(i)), Len(Content(logs, LogfileName(i))) + 1,
           Len(Content(logs', LogfileName(i))))

IsCommandLine(entry) == Len(entry.text) > 1 /\ entry.text[1] = "$ "

\* The command that a step of a task runs is the command of that step, one
\* command at most; the first step writes the start line and the first
\* snapshot at the top of the log, and runs no command.
StepRunsItsCommand ==
    \A i \in Tasks :
        (StepOf(i) /\ tasks[i].pc # "new") =>
            LET new == Appended(i)
            IN  /\ \A k \in 1..Len(new) :
                      IsCommandLine(new[k]) =>
                          /\ CommandRank(i, Tail(new[k].text)) = StepRank(tasks[i].pc)
                          /\ \A n \in 1..Len(new) : IsCommandLine(new[n]) => n = k
                /\ (tasks[i].pc = "queued" /\ new # << >>) =>
                      /\ Content(logs, LogfileName(i)) = << >>
                      /\ new[1].text[1] = "Started merge-task for "
                      /\ new[2].text[1] = "repo_metadata at task-begin:"

\* C24: the steps of a task follow each other in the order start and first
\* snapshot, pre-script if configured, repository check, reset, clean,
\* checkout of dest_branch, probe and checkout of the merge-branch if a
\* template is configured, merge, post-script if configured, finalize; no
\* step is taken twice and none goes back.
C24_StepsSequential == [][StepsForward /\ StepRunsItsCommand]_vars

\* C24 witness: with pre-script, template and post-script configured a task
\* has gone through all steps without failure: its log holds the eight
\* commands.
C24_Witness ==
    \E i \in Tasks :
        /\ tasks[i].pc = "done"
        /\ ~tasks[i].exc
        /\ HasPreScript /\ HasTemplate /\ HasPostScript
        /\ Cardinality({k \in 1..Len(LogOf(i)) : IsCommandAt(i, k)}) = 8

\* An honored command of task i has failed, or its repository is missing.
EnteredFailure(i) ==
    \/ tasks[i].is_dir = "absent"
    \/ \E k \in 1..Len(LogOf(i)) :
          /\ IsCommandAt(i, k)
          /\ ExitCodeAt(i, k) # "0"
          /\ ~IsProbeOrMerge(CommandAt(i, k))

\* The failed command is the last command in the log of the task, and a
\* task whose repository is missing has run no git command and no
\* post-script.
NothingRanAfterFailure(i) ==
    /\ tasks[i].is_dir = "absent" => ~GitRan(i) /\ ~PostScriptRan(i)
    /\ \A k \in 1..Len(LogOf(i)) :
          (IsCommandAt(i, k) /\ ExitCodeAt(i, k) # "0" /\ ~IsProbeOrMerge(CommandAt(i, k))) =>
              /\ \A n \in (k + 1)..Len(LogOf(i)) : ~IsCommandLine(LogOf(i)[n])
              /\ CommandRank(i, CommandAt(i, k)) < 9 => ~MergeRan(i)
              /\ CommandRank(i, CommandAt(i, k)) < 10 => ~PostScriptRan(i)

\* The only step left to a task that has entered failure is the
\* finalization, that runs no command.
OnlyFinalizeAfterFailure ==
    \A i \in Tasks :
        (Started(i) /\ EnteredFailure(i) /\ StepOf(i)) =>
            /\ tasks[i].pc = "finalize"
            /\ tasks'[i].pc = "done"
            /\ \A k \in 1..Len(Appended(i)) : ~IsCommandLine(Appended(i)[k])

\* C25: once an honored command of a task has failed (pre-script, reset,
\* clean, checkout, checkout of the merge-branch, post-script) or its
\* repository was found missing, the task runs no further command, neither
\* the merge nor the post-script when they were still to come: it is at its
\* finalization or finished.
C25_FailureSkipsRemainingSteps ==
    /\ [](\A i \in Tasks :
            (Started(i) /\ EnteredFailure(i)) =>
                /\ tasks[i].exc
                /\ tasks[i].pc \in {"finalize", "done"}
                /\ NothingRanAfterFailure(i))
    /\ [][OnlyFinalizeAfterFailure]_vars

\* C25 witness: with a post-script configured a task is finished whose
\* checkout of dest_branch failed after reset and clean: neither merge nor
\* post-script was run.
C25_Witness ==
    \E i \in Tasks :
        /\ tasks[i].pc = "done"
        /\ HasPostScript
        /\ ExitedNonZero(i, GitC(i) \o <<" checkout ">> \o DestBranch(i))
        /\ Ran(i, " clean -fd")
        /\ ~MergeRan(i)
        /\ ~PostScriptRan(i)

IsRecord(entry) ==
    /\ Len(entry.text) >= 3
    /\ entry.text[1] = "Returncode: "
    /\ entry.text[2] \in {"0", "1"}
    /\ entry.text[3] = "; Duration"

\* In what a step adds to a log, every command line is followed at once by
\* the record of the command, and every record follows its command line.
CommandThenRecord ==
    \A i \in Tasks :
        (StepOf(i) /\ tasks[i].pc # "new") =>
            LET new == Appended(i)
            IN  \A k \in 1..Len(new) :
                    /\ IsCommandLine(new[k]) => (k < Len(new) /\ IsRecord(new[k + 1]))
                    /\ new[k].text[1] = "Returncode: " =>
                          (IsRecord(new[k]) /\ k > 1 /\ IsCommandLine(new[k - 1]))

\* The log of a task begins with the start line and the snapshot of the
\* descriptor at the start; the log of a finished task ends with the
\* snapshot of the descriptor as the task leaves it.
FirstAndLastEntries ==
    \A i \in Tasks :
        (Started(i) /\ LogOf(i) # << >>) =>
            /\ LogOf(i)[1].text = <<"Started merge-task for ">> \o RepoLocalName(i)
            /\ Len(LogOf(i)) >= 2
            /\ LogOf(i)[2].text[1] = "repo_metadata at task-begin:"
            /\ LogOf(i)[2].md["task_start"] = tasks[i].task_start_timestamp
            /\ tasks[i].pc = "done" =>
                  /\ LogOf(i)[Len(LogOf(i))].text[1] = "repo_metadata at task-end:"
                  /\ LogOf(i)[Len(LogOf(i))].md = repos_metadata[i]

\* C26: for every command that the runner executes the log of the task
\* gets the command line and then, next to it, the record with exit code and
\* duration, also when the command exits non-zero and the runner raises;
\* the log of a task begins with the start line and the first snapshot and
\* ends with the final snapshot.
C26_CommandLineThenRecord ==
    /\ []FirstAndLastEntries
    /\ [][CommandThenRecord]_vars

\* C26 witness: the log of a finished task holds the command line of a
\* command that made the runner raise and, next to it, the record with the
\* exit code 1, followed by the finish line and the final snapshot.
C26_Witness ==
    \E i \in Tasks :
        /\ tasks[i].pc = "done"
        /\ LET n == Len(LogOf(i))
           IN  /\ n >= 6
               /\ IsCommandLine(LogOf(i)[n - 3])
               /\ IsRecord(LogOf(i)[n - 2])
               /\ LogOf(i)[n - 2].text[2] = "1"
               /\ RaisedFor(i, Tail(LogOf(i)[n - 3].text), "1")
               /\ IsFinishLine(LogOf(i)[n - 1])
               /\ LogOf(i)[n].md = repos_metadata[i]

\* The step writes report.html.
WritesReport == report_written' # report_written \/ report' # report

\* The run-time fields that execute_merge leaves in a descriptor.
FinishKeys == {"task_finish_status", "task_error_details", "task_duration"}

\* report.html is written at most once, when no task is running any more
\* and every descriptor has its finish status, detail and duration, and in
\* the step that computes the exit status.
ReportAfterAllTasks ==
    WritesReport =>
        /\ ~report_written /\ report_written'
        /\ \A i \in Tasks : tasks[i].pc = "done"
        /\ \A i \in Tasks : FinishKeys \subseteq DOMAIN repos_metadata[i]
        /\ exit_code = NoExit
        /\ exit_code' = (IF IsError(repos_metadata) THEN 1 ELSE 0)

\* C27: the report is written exactly once in a run, after every task has
\* finished: a run that has had its tasks and has ended has written it, and
\* when it is written, together with the exit status, no task is running
\* and every descriptor has its finish status, detail and duration.
C27_ReportOnceAfterAllTasks ==
    /\ []((main_pc = "exited" /\ PoolStarted) => report_written)
    /\ []((report_written \/ main_pc = "report") => \A i \in Tasks : Terminated(i))
    /\ [][ReportAfterAllTasks]_vars

(***************************************************************************)
(* Properties of the fair runs (SpecLive).                                 *)
(***************************************************************************)
\* C28: when the commands return, every task of the pool reaches its end,
\* success or failure, and main() writes the report and exits; a task that
\* is running never has to wait: its next step can always be taken.
C28_EveryTaskEndsAndReportWritten ==
    /\ PoolStarted ~> (/\ \A i \in Tasks : tasks[i].pc = "done"
                       /\ report_written
                       /\ main_pc = "exited")
    /\ [](\A i \in Tasks : Running(i) => ENABLED TaskNext(i))

(***************************************************************************)
(* Properties of the pool (SpecPool).                                      *)
(***************************************************************************)
RunningTasks == {i \in Tasks : Running(i)}

\* Every work item has run: no descriptor is left in the queue.
AllProcessed == \A i \in Tasks : Terminated(i)

\* C29: at every moment the tasks that have started and not finished are at
\* most max_workers; a queued work item starts as soon as fewer are running
\* and the items before it were taken, and every descriptor of a list longer
\* than the pool is processed in the end, before main() goes on.
C29_PoolBoundsConcurrency ==
    /\ [](Cardinality(RunningTasks) <= max_workers)
    /\ [](\A i \in Tasks :
            (/\ tasks[i].pc = "queued"
             /\ \A j \in 1..(i - 1) : Started(j)
             /\ Cardinality(RunningTasks) < max_workers) => ENABLED TaskInit(i))
    /\ []((main_pc \in {"report", "exited"} /\ PoolStarted) => AllProcessed)
    /\ PoolStarted ~> AllProcessed

\* More descriptors than threads: the pool is full, a work item waits in the
\* queue, and one that had to wait runs on a thread that became free.
C29_Witness ==
    /\ Len(repos_data) > max_workers
    /\ Cardinality(RunningTasks) = max_workers
    /\ \E i \in Tasks : tasks[i].pc = "queued"
    /\ \E i \in Tasks : i > max_workers /\ Running(i)
    /\ \E i \in Tasks : tasks[i].pc = "done"

(***************************************************************************)
(* Properties of the merge_repos variant (SpecRecreate).                   *)
(***************************************************************************)
\* The step runs the merge command of a task with a merge-branch pattern.
MergeStarts ==
    /\ merge_repos.pc = "run_commands_merge"
    /\ merge_repos.merge_branch_pattern # EmptyStr
    /\ merge_repos.commands # << >>
    /\ Head(merge_repos.commands).git = "merge"
    /\ merge_repos' # merge_repos

\* The log of the run under way.
Logfile == merge_repos.logfiles[run]

\* The last n lines of the log of the run under way.
LastLogged(n) == SubSeq(Logfile, Len(Logfile) - n + 1, Len(Logfile))

\* The probe found the branch, and branch -D and checkout -b followed with
\* success.
DeletedAndCreated ==
    /\ Len(Logfile) >= 3
    /\ LastLogged(3) =
          << MrLogged(GitCommand("show-ref", merge_repos.merge_branch), 0),
             MrLogged(GitCommand("branch -D", merge_repos.merge_branch), 0),
             MrLogged(GitCommand("checkout -b", merge_repos.merge_branch), 0) >>

\* The probe did not find the branch, and checkout -b alone followed.
OnlyCreated ==
    /\ Len(Logfile) >= 3
    /\ LastLogged(3) =
          << MrLogged(GitCommand("show-ref", merge_repos.merge_branch), 1),
             NotPresentNote,
             MrLogged(GitCommand("checkout -b", merge_repos.merge_branch), 0) >>

\* HEAD is at the merge-branch, that is at the commit of the dest-branch.
FreshFromDestBranch ==
    /\ merge_repos.repo.head = merge_repos.merge_branch
    /\ merge_repos.merge_branch \in DOMAIN merge_repos.repo.refs
    /\ merge_repos.repo.refs[merge_repos.merge_branch]
           = merge_repos.repo.refs[merge_repos.dest_branch]

\* The step is the probe of a task with a pattern: a probe that found the
\* branch is followed by branch -D, checkout -b and the merge, any other by
\* checkout -b and the merge.
ProbeDecides ==
    (merge_repos.pc = "probe" /\ merge_repos.merge_branch_pattern # EmptyStr
                             /\ merge_repos' # merge_repos) =>
        LET b == merge_repos'.merge_branch
            found == b \in DOMAIN merge_repos.repo.refs
            merge == GitCommand("merge", merge_repos.source_branch)
        IN  /\ merge_repos'.logfiles[run]
                  = Logfile \o (IF found THEN << MrLogged(GitCommand("show-ref", b), 0) >>
                                ELSE << MrLogged(GitCommand("show-ref", b), 1), NotPresentNote >>)
            /\ found => merge_repos'.commands
                  = << GitCommand("branch -D", b), GitCommand("checkout -b", b), merge >>
            /\ ~found => merge_repos'.commands = << GitCommand("checkout -b", b), merge >>
            /\ merge_repos'.repo = merge_repos.repo

\* C30: with a merge-branch pattern, when the merge starts the probe was
\* followed by branch -D and checkout -b (branch found) or by checkout -b
\* alone (not found), and the merge-branch is checked out and is at the
\* commit of the dest-branch: whatever an earlier run left on a branch of
\* that name, the state before the merge is the same.
C30_MergeBranchDeletedAndRecreated ==
    [][/\ ProbeDecides
       /\ MergeStarts => (FreshFromDestBranch /\ (DeletedAndCreated \/ OnlyCreated))]_vars

\* The merge of the first run succeeded on a merge-branch that the probe
\* had not found; the second run renders the same name, finds the branch,
\* that is ahead of the dest-branch, deletes and re-creates it, and is about
\* to merge.
C30_Witness ==
    /\ run = 2
    /\ merge_repos.pc = "run_commands_merge"
    /\ merge_repos.commands = << GitCommand("merge", merge_repos.source_branch) >>
    /\ DeletedAndCreated
    /\ FreshFromDestBranch
    /\ merge_repos.merge_branch # merge_repos.dest_branch
    /\ \E k \in 1..Len(merge_repos.logfiles[1]) :
         /\ merge_repos.logfiles[1][k] = MrLogged(GitCommand("merge", merge_repos.source_branch), 0)
         /\ k > 3
         /\ merge_repos.logfiles[1][k - 3]
               = MrLogged(GitCommand("show-ref", merge_repos.merge_branch), 1)

\* The remote-sync command of merge_repos.py.
Pull == GitCommand("pull --ff", EmptyStr)

\* The commands that set up the merge-branch, and the merge.
IsSetupOrMerge(command) == command.git \in {"show-ref", "branch -D", "checkout -b", "merge"}

\* In the log of a run: a pull is there only without --local, as the fourth
\* command, right after the checkout of the dest-branch that succeeded, and
\* a pull that failed is the last line; the probe, the set-up of the
\* merge-branch and the merge come, without --local, only after a pull that
\* succeeded.
PullInItsPlace(lg) ==
    \A k \in 1..Len(lg) :
        /\ lg[k].command = Pull =>
              /\ ~merge_repos.local
              /\ k = 4
              /\ lg[3] = MrLogged(GitCommand("checkout", merge_repos.dest_branch), 0)
              /\ lg[k].returncode # 0 => k = Len(lg)
        /\ (IsSetupOrMerge(lg[k].command) /\ ~merge_repos.local) =>
              /\ k > 4
              /\ lg[4] = MrLogged(Pull, 0)
        /\ (IsSetupOrMerge(lg[k].command) /\ merge_repos.local) =>
              /\ k > 3
              /\ lg[3] = MrLogged(GitCommand("checkout", merge_repos.dest_branch), 0)

\* C31: git pull --ff is run exactly when --local is not given, after the
\* checkout of dest_branch and before the probe, the set-up of the
\* merge-branch and the merge; with --local no run pulls; a pull that fails
\* ends the task with an error, no merge follows.
C31_PullUnlessLocal ==
    /\ \A r \in 1..Len(merge_repos.logfiles) : PullInItsPlace(merge_repos.logfiles[r])
    /\ (Logfile # << >> /\ Logfile[Len(Logfile)].command = Pull
           /\ Logfile[Len(Logfile)].returncode # 0) =>
          (merge_repos.pc = "returned" /\ merge_repos.e # EmptyStr)

\* C31 witness: without --local the first run has pulled and merged, and the
\* pull of the second run has failed.
C31_Witness ==
    /\ ~merge_repos.local
    /\ run = 2
    /\ Len(merge_repos.logfiles[1]) > 4
    /\ merge_repos.logfiles[1][4] = MrLogged(Pull, 0)
    /\ merge_repos.logfiles[1][Len(merge_repos.logfiles[1])]
          = MrLogged(GitCommand("merge", merge_repos.source_branch), 0)
    /\ Logfile = SubSeq(merge_repos.logfiles[1], 1, 3) \o << MrLogged(Pull, 1) >>

(***************************************************************************)
(* Further properties of the tasks (Spec).                                 *)
(***************************************************************************)
IsGitCommandLine(entry) == IsCommandLine(entry) /\ entry.text[2] = "git -C "

\* A step of a task whose merge command has returned runs no git command,
\* and leaves the merges of its repository as they are.
NoGitAfterMerge ==
    \A i \in Tasks :
        (StepOf(i) /\ MergeRan(i)) =>
            /\ \A k \in 1..Len(Appended(i)) : ~IsGitCommandLine(Appended(i)[k])
            /\ git'[i].merged_on = git[i].merged_on

\* No step of the run, of whatever task or of main(), takes a merge back.
MergesKept ==
    \A i \in Tasks : Len(git') = Len(git) => git[i].merged_on \subseteq git'[i].merged_on

\* Task i has finished without failure.
FinishedSuccessfully(i) == tasks[i].pc = "done" /\ ~tasks[i].exc

\* C32: once the merge command of a task has returned, no step of the run
\* issues a git command against that repository (the post-script alone may
\* follow) and no step takes a merge back, whatever the other tasks do; at
\* the exit with status 1 every task that finished without failure has its
\* merge applied.
C32_PartialSuccessPreserved ==
    /\ [][NoGitAfterMerge /\ MergesKept]_vars
    /\ []((main_pc = "exited" /\ report_written /\ exit_code = 1) =>
            \A i \in Tasks :
                FinishedSuccessfully(i) =>
                    /\ tasks[i].r_merge = 0
                    /\ MergeRan(i)
                    /\ git[i].merged_on # {})

\* C32 witness: the run has exited with 1, one task has failed and another
\* has finished successfully, its post-script run after the merge.
C32_Witness ==
    /\ main_pc = "exited" /\ report_written /\ exit_code = 1
    /\ \E i, j \in Tasks :
         /\ FinishedSuccessfully(i)
         /\ PostScriptRan(i)
         /\ git[i].merged_on # {}
         /\ tasks[j].pc = "done" /\ tasks[j].exc

\* The pre-script of task i has returned with exit code 0.
PreScriptSucceeded(i) ==
    \E k \in 1..Len(LogOf(i)) :
        /\ IsCommandAt(i, k)
        /\ CommandAt(i, k) = cl_args.pre_script
        /\ ExitCodeAt(i, k) = "0"

\* The step in which is_dir() is evaluated is the repository check, and
\* with a pre-script configured the pre-script has returned before.
CheckedAtTheCheck ==
    \A i \in Tasks :
        (StepOf(i) /\ tasks'[i].is_dir # tasks[i].is_dir) =>
            /\ tasks[i].pc = "repo_check"
            /\ tasks[i].is_dir = "unchecked"
            /\ HasPreScript => PreScriptSucceeded(i)

\* C33: the directory of the repository is looked at in the repository
\* check only, after the pre-script has returned with success: the
\* pre-script is run whether or not the repository is there, nothing has
\* looked for it yet, and a repository that is there at the check (cloned
\* by the pre-script, say) goes on to the git commands and the merge.
C33_RepoCheckedAfterPreScript ==
    /\ [][CheckedAtTheCheck]_vars
    /\ [](\A i \in Tasks :
            /\ (HasPreScript /\ tasks[i].pc \in {"queued", "pre_script"}) =>
                  tasks[i].is_dir = "unchecked"
            /\ (HasPreScript /\ tasks[i].pc = "pre_script") => ENABLED TaskPreScript(i)
            /\ (HasPreScript /\ tasks[i].is_dir # "unchecked") => PreScriptSucceeded(i)
            /\ (Started(i) /\ GitRan(i)) => tasks[i].is_dir = "present"
            /\ (tasks[i].pc = "reset") => tasks[i].is_dir = "present")

\* C33 witness: in one run the pre-script has run for two repositories; one
\* was there at the check and was merged, the task finished successfully;
\* the other was not there after its pre-script.
C33_Witness ==
    \E i, j \in Tasks :
        /\ FinishedSuccessfully(i)
        /\ tasks[j].pc = "done"
        /\ PreScriptSucceeded(i) /\ PreScriptSucceeded(j)
        /\ tasks[i].is_dir = "present"
        /\ git[i].merged_on # {}
        /\ tasks[j].is_dir = "absent"

(***************************************************************************)
(* Further properties of the renderers (SpecRender, SpecPattern).          *)
(***************************************************************************)
\* C34: no call of make_mergebranch_name with a well-formed template has
\* raised, whether or not the descriptor holds the fields the template
\* names, alone or under a method call: a template cannot fail a task.
C34_RenderingNeverRaisesOnAbsentField ==
    \A r \in renderings.concurrent_git_merge : r.exc = "none"

(***************************************************************************)
(* Further properties of the descriptors and the report (Spec).            *)
(***************************************************************************)
\* The two failure fields of a descriptor agree.
FailureFieldsAgree(repo_metadata) ==
    /\ repo_metadata["task_finish_status"] \in {"successfully", "with FAILURE"}
    /\ repo_metadata["task_finish_status"] = "with FAILURE"
          <=> repo_metadata["task_error_details"] # EmptyStr

\* C35: in the descriptor of every finished task task_finish_status is
\* "with FAILURE" exactly when task_error_details is not empty, and the exit
\* status that follows the report is 1 exactly when a row of the report
\* shows "with FAILURE".
C35_FailureFieldsAgree ==
    /\ \A i \in Tasks : tasks[i].pc = "done" => FailureFieldsAgree(repos_metadata[i])
    /\ report_written =>
          /\ exit_code \in {0, 1}
          /\ exit_code = 1
                <=> \E k \in 1..Len(report) : report[k].task_finish_status = "with FAILURE"

\* C35 witness: the report of a run of two tasks is written, one row
\* shows success and one failure, the exit status is 1.
C35_Witness ==
    /\ report_written
    /\ exit_code = 1
    /\ Len(report) = 2
    /\ \E k, n \in 1..2 :
         /\ report[k].task_finish_status = "successfully"
         /\ report[k].task_error_details = EmptyStr
         /\ report[n].task_finish_status = "with FAILURE"
         /\ report[n].task_error_details # EmptyStr

\* The message of the deferred merge failure (lines 451-454).
MergeFailedMsg(i) == RepoDir(i) \o <<": git merge exited with non-zero status. Output: <stdout>">>

\* The post-script of task i has returned with this exit code.
PostScriptExited(i, code) ==
    \E k \in 1..Len(LogOf(i)) :
        /\ IsCommandAt(i, k)
        /\ CommandAt(i, k) = cl_args.post_script
        /\ ExitCodeAt(i, k) = code

\* C36: in a finished task whose merge exited non-zero, a post-script that
\* exited non-zero too leaves the command-failed error of the post-script as
\* the detail, without the merge failure, and one returned error; a
\* post-script that succeeded, or none, leaves the merge failure with the
\* output of the merge.
C36_PostScriptErrorReplacesMergeError ==
    \A i \in Tasks :
        (tasks[i].pc = "done" /\ tasks[i].r_merge \notin {0, NoReturncode}) =>
            LET detail == repos_metadata[i]["task_error_details"]
            IN  /\ repos_metadata[i]["task_finish_status"] = "with FAILURE"
                /\ tasks[i].returned = <<RepoLocalName(i), detail>>
                /\ (HasPostScript /\ PostScriptExited(i, "1")) =>
                      /\ Contains(detail,
                             <<": The following command exited with exit-code ", "1", ": ">>
                             \o cl_args.post_script)
                      /\ ~Contains(detail, <<": git merge exited with non-zero status. Output: <stdout>">>)
                /\ ~(HasPostScript /\ PostScriptExited(i, "1")) => detail = MergeFailedMsg(i)

\* C36 witness: one task is finished whose merge and post-script both
\* exited non-zero, another whose merge alone failed before a post-script
\* that succeeded.
C36_Witness ==
    \E i, j \in Tasks :
        /\ tasks[i].pc = "done" /\ tasks[j].pc = "done"
        /\ tasks[i].r_merge = 1 /\ tasks[j].r_merge = 1
        /\ PostScriptExited(i, "1")
        /\ PostScriptExited(j, "0")
        /\ repos_metadata[j]["task_error_details"] = MergeFailedMsg(j)

\* The variables of the fields that the end of a task writes.
EndVariables == {"CGM_TASK_END", "CGM_TASK_DURATION", "CGM_TASK_FINISH_STATUS"}

\* extended_env is assigned in the first step of a task and never again,
\* and the environment a script was started with is the extended_env of
\* that moment.
EnvBuiltOnce ==
    \A i \in Tasks :
        /\ tasks'[i].extended_env # tasks[i].extended_env => tasks[i].pc = "queued"
        /\ \A script_env \in ScriptEnvs :
              tasks'[i][script_env] # tasks[i][script_env] =>
                  /\ tasks[i][script_env] = EmptyDict
                  /\ tasks'[i][script_env] = tasks[i].extended_env

\* C37: the environment is built once, in the first step of the task; the
\* post-script is started with that very environment, the one the pre-script
\* got: it holds no variable of the task end, the duration or the finish
\* status, the error detail in it is still empty whatever the merge did, and
\* it stays as it is while the descriptor goes on changing.
C37_PostScriptGetsEnvOfPreScript ==
    /\ [][EnvBuiltOnce]_vars
    /\ [](\A i \in Tasks :
            ScriptStarted(i, "post_script_env") =>
                LET env == tasks[i].post_script_env
                IN  /\ env = tasks[i].extended_env
                    /\ ScriptStarted(i, "pre_script_env") => env = tasks[i].pre_script_env
                    /\ DOMAIN env \cap EndVariables = {}
                    /\ env["CGM_TASK_ERROR_DETAILS"] = EmptyStr)

\* C37 witness: a task is finished as failed after both scripts ran on a
\* merge that exited non-zero: the descriptor holds the detail, the end and
\* the status, the environment of the post-script does not.
C37_Witness ==
    \E i \in Tasks :
        /\ tasks[i].pc = "done"
        /\ tasks[i].r_merge = 1
        /\ ScriptStarted(i, "pre_script_env")
        /\ ScriptStarted(i, "post_script_env")
        /\ repos_metadata[i]["task_error_details"] # EmptyStr
        /\ EndVariables \subseteq EnvVarNames(DOMAIN repos_metadata[i])

(***************************************************************************)
(* A further property of the validation pass (SpecBuild).                  *)
(***************************************************************************)
\* The error list holds the not-unique message.
NotUniqueReported == \E k \in 1..Len(errors) : IsNotUniqueMsg(errors[k])

FormattedDate == <<"%", "D", "A", "T", "E", "(", "%", "b", "%", "d", ")">>

\* The position of the last %DATE(%b%d) of s.
LastFormattedDate(s) ==
    CHOOSE p \in 1..Len(s) :
        /\ OccursAt(s, FormattedDate, p)
        /\ \A q \in (p + 1)..Len(s) : ~OccursAt(s, FormattedDate, q)

IsSuffix(end, s) == Len(end) <= Len(s) /\ SubSeq(s, Len(s) - Len(end) + 1, Len(s)) = end

\* C39: in the merge_repos variant each %DATE(%b%d) of the pattern is
\* replaced by its own formatted date, and the text that follows the closing
\* parenthesis of the last of them, a ')' or a %DATE() in it included, ends
\* the output as it was (its %SBR and %DBR replaced).
C39_EachDateReplacedTextAfterKept ==
    (Returned /\ Contains(merge_repos.merge_branch_pattern, FormattedDate)) =>
        LET pattern == merge_repos.merge_branch_pattern
            after == LastFormattedDate(pattern) + Len(FormattedDate)
            date == Strftime(<<"%", "b", "%", "d">>, merge_repos.g_start_timestamp)
        IN  /\ Occurrences(merge_repos.merge_branch, date) = Occurrences(pattern, FormattedDate)
            /\ IsSuffix(PlaceholdersReplaced(SubSeq(pattern, after, Len(pattern)),
                                             merge_repos.source_branch, merge_repos.dest_branch,
                                             merge_repos.g_start_timestamp),
                        merge_repos.merge_branch)

=============================================================================
